---- MODULE Spec2Model ----
(***************************************************************************)
(* Model of the ESP32/host communication subsystem:                        *)
(*   - the packet framing codec (esp32_packet_framing.c): CRC16, the       *)
(*     byte-by-byte receive state machine, the synchronous and the         *)
(*     asynchronous transmit path;                                         *)
(*   - the protocol handler (protocol_handler.c): command dispatch and     *)
(*     the streaming session with its background task.                     *)
(* SpecRx drives the receive state machine with byte streams.              *)
(* Spec   runs the receive/dispatch task, the stream task and the          *)
(*        transport's DMA engine concurrently.                             *)
(***************************************************************************)
EXTENDS Integers, Sequences, FiniteSets, TLC

\* ------------------------------------------------------------------------
\* Program constants
\* ------------------------------------------------------------------------
STM32_UART_MAX_PACKET_SIZE == 512
PACKET_OVERHEAD == 6
STM32_PACKET_START_MARKER == 170
STM32_PACKET_END_MARKER == 85
DEFAULT_RX_TIMEOUT_MS == 1000

\* ------------------------------------------------------------------------
\* Bounds of the model
\* ------------------------------------------------------------------------
MaxLen == 2
MaxGarbage == 2
MaxTail == 6
MaxTasks == 2
MaxCmds == 2
MaxNotifs == 1
MaxAppOps == 1
DmaSteps == 2

\* ------------------------------------------------------------------------
\* 8/16-bit arithmetic
\* ------------------------------------------------------------------------
RECURSIVE BitXor(_, _)
BitXor(a, b) ==
    IF a = 0 THEN b
    ELSE IF b = 0 THEN a
    ELSE ((a + b) % 2) + 2 * BitXor(a \div 2, b \div 2)

RECURSIVE BitOr(_, _)
BitOr(a, b) ==
    IF a = 0 THEN b
    ELSE IF b = 0 THEN a
    ELSE (IF a % 2 = 1 \/ b % 2 = 1 THEN 1 ELSE 0) + 2 * BitOr(a \div 2, b \div 2)

RECURSIVE Pow2(_)
Pow2(k) == IF k = 0 THEN 1 ELSE 2 * Pow2(k - 1)

U8(x) == x % 256
U16(x) == x % 65536

\* ------------------------------------------------------------------------
\* CRC16-CCITT
\* ------------------------------------------------------------------------
crc16_table ==
    <<
       0, 4129, 8258, 12387, 16516, 20645, 24774, 28903,
       33032, 37161, 41290, 45419, 49548, 53677, 57806, 61935,
       4657, 528, 12915, 8786, 21173, 17044, 29431, 25302,
       37689, 33560, 45947, 41818, 54205, 50076, 62463, 58334,
       9314, 13379, 1056, 5121, 25830, 29895, 17572, 21637,
       42346, 46411, 34088, 38153, 58862, 62927, 50604, 54669,
       13907, 9842, 5649, 1584, 30423, 26358, 22165, 18100,
       46939, 42874, 38681, 34616, 63455, 59390, 55197, 51132,
       18628, 22757, 26758, 30887, 2112, 6241, 10242, 14371,
       51660, 55789, 59790, 63919, 35144, 39273, 43274, 47403,
       23285, 19156, 31415, 27286, 6769, 2640, 14899, 10770,
       56317, 52188, 64447, 60318, 39801, 35672, 47931, 43802,
       27814, 31879, 19684, 23749, 11298, 15363, 3168, 7233,
       60846, 64911, 52716, 56781, 44330, 48395, 36200, 40265,
       32407, 28342, 24277, 20212, 15891, 11826, 7761, 3696,
       65439, 61374, 57309, 53244, 48923, 44858, 40793, 36728,
       37256, 33193, 45514, 41451, 53516, 49453, 61774, 57711,
       4224, 161, 12482, 8419, 20484, 16421, 28742, 24679,
       33721, 37784, 41979, 46042, 49981, 54044, 58239, 62302,
       689, 4752, 8947, 13010, 16949, 21012, 25207, 29270,
       46570, 42443, 38312, 34185, 62830, 58703, 54572, 50445,
       13538, 9411, 5280, 1153, 29798, 25671, 21540, 17413,
       42971, 47098, 34713, 38840, 59231, 63358, 50973, 55100,
       9939, 14066, 1681, 5808, 26199, 30326, 17941, 22068,
       55628, 51565, 63758, 59695, 39368, 35305, 47498, 43435,
       22596, 18533, 30726, 26663, 6336, 2273, 14466, 10403,
       52093, 56156, 60223, 64286, 35833, 39896, 43963, 48026,
       19061, 23124, 27191, 31254, 2801, 6864, 10931, 14994,
       64814, 60687, 56684, 52557, 48554, 44427, 40424, 36297,
       31782, 27655, 23652, 19525, 15522, 11395, 7392, 3265,
       61215, 65342, 53085, 57212, 44955, 49082, 36825, 40952,
       28183, 32310, 20053, 24180, 11923, 16050, 3793, 7920
    >>

\* one iteration of the loop of stm32_uart_crc16
crc16_step(crc, byte) ==
    BitXor(U16(crc * 256), crc16_table[U8(BitXor(crc \div 256, byte)) + 1])

\* the loop of stm32_uart_crc16 over data[i..j], in index order; the range is
\* halved and the value after the left half is computed once, which keeps
\* the evaluation depth logarithmic in the length
RECURSIVE crc16_range(_, _, _, _)
crc16_range(crc, data, i, j) ==
    IF i > j THEN crc
    ELSE IF i = j THEN crc16_step(crc, data[i])
    ELSE LET m == (i + j) \div 2
         IN  CHOOSE r \in {crc16_range(left, data, m + 1, j) :
                              left \in {crc16_range(crc, data, i, m)}} : TRUE

stm32_uart_crc16(data) == crc16_range(65535, data, 1, Len(data))

\* ------------------------------------------------------------------------
\* Frame encoder of stm32_uart_send_packet_async; the peer builds its frames alike
\* ------------------------------------------------------------------------
LengthLowByte(length) == length % 256
LengthHighByte_dropped(length) == 0
LengthHighByte(length) == (length \div 256) % 256

\* START + LENGTH(2, little-endian) + DATA + CRC(2, little-endian) + END
BuildFrame(data) ==
    LET crc == stm32_uart_crc16(data)
    IN  <<STM32_PACKET_START_MARKER, LengthLowByte(Len(data)), LengthHighByte(Len(data))>>
        \o data
        \o <<crc % 256, (crc \div 256) % 256, STM32_PACKET_END_MARKER>>

\* the frame stm32_uart_send_packet builds in its local buffer: start marker,
\* length low and high, data, CRC of the data low and high, end marker
SyncFrame_crcheader(data) ==
    LET length == Len(data)
        crc == stm32_uart_crc16(<<length % 256, (length \div 256) % 256>> \o data)
    IN  <<STM32_PACKET_START_MARKER>> \o <<length % 256>> \o <<(length \div 256) % 256>>
        \o data \o <<crc % 256>> \o <<(crc \div 256) % 256>> \o <<STM32_PACKET_END_MARKER>>
SyncFrame(data) ==
    LET length == Len(data)
        crc == stm32_uart_crc16(data)
    IN  <<STM32_PACKET_START_MARKER>> \o <<length % 256>> \o <<(length \div 256) % 256>>
        \o data \o <<crc % 256>> \o <<(crc \div 256) % 256>> \o <<STM32_PACKET_END_MARKER>>

\* ------------------------------------------------------------------------
\* State
\* ------------------------------------------------------------------------
VARIABLES
    \* receive assembly state of stm32_uart_state_t
    rx_state, rx_buffer, rx_index, rx_expected_length, rx_crc,
    rx_timeout_ms,      \* state.config.rx_timeout_ms
    stats,              \* state.stats
    events,             \* events delivered to state.config.callback, in order
    \* the byte stream offered by the transport to the receive task
    scen,               \* the stream that is fed (kind, parts, bytes)
    rxPos,              \* index of the next byte of scen.input
    lateSeen            \* some byte arrived later than rx_timeout_ms after its predecessor

rxVars == <<rx_state, rx_buffer, rx_index, rx_expected_length, rx_crc,
            rx_timeout_ms, scen, rxPos, lateSeen>>

VARIABLES
    \* transmit state of stm32_uart_state_t
    tx_mutex,           \* owner of state.tx_mutex, or NULL
    tx_complete_sem,    \* count of the binary semaphore state.tx_complete_sem
    tx_in_progress,
    tx_buffer,          \* static buffer handed to the DMA engine
    tx_pending_length,
    \* transport (hal_uart): DMA engine reading tx_buffer, and the wire
    hwBusy, hwPos, hwLen,
    wire,               \* bytes that reached the transport, in order
    started,            \* frames whose hardware write was accepted, in order
    \* protocol_state_t
    seq_counter, streaming_active, stream_sensor, stream_interval_ms,
    stream_task_handle, stream_stop_requested,
    \* tasks
    pc,                 \* position of every task
    sendData,           \* data argument of the send a task is executing
    sendStatus,         \* uart_driver_status_t of a task's last send or wait
    taskState,          \* stream tasks: "none", "alive" or "deleted"
    rxCmd,              \* command the dispatcher is handling
    cmdsLeft, appLeft, notifsLeft,
    fault               \* the kernel stopped on a corrupted task list or heap

VARIABLES
    \* sample store of the current monitor service
    measurement_status, \* measurement_status_t
    sample_count,       \* samples held in the ring buffer
    samples_captured    \* stats.samples_captured

monVars == <<measurement_status, sample_count, samples_captured>>

VARIABLES
    \* temperature cache of protocol_state_t, in hundredths of a unit
    last_temperature, last_humidity, temp_data_valid,
    \* temperature_event_handler while it runs on the event bus
    evData,             \* the temperature_data_t of the event being handled
    evStores,           \* stores of the running callback not yet performed
    evBus,              \* the sensor service publishes temperature events
    delivered,          \* temperatures of the sensor-ok updates delivered so far
    read_failed,        \* the last report the event bus processed was a failed read
    \* locals of stream_task
    flag_seen,          \* whether the pass of the loop found its reading valid
    value_read          \* the value the pass of the loop read

VARIABLES
    \* stm32_uart_wait_tx_complete while it blocks on the semaphore
    tx_done_seen        \* a TX_DONE event was delivered since the wait began

waitVars == <<tx_done_seen>>

VARIABLES
    \* the device time source (hal_rtc)
    rtc_seconds         \* unix time the real-time clock holds

rtcVars == <<rtc_seconds>>

VARIABLES
    allocated,          \* what stm32_uart_init has acquired and not released
    uart_initialized,   \* state.initialized of the codec
    proto_initialized,  \* state.initialized of the protocol handler
    apiCall,            \* the protocol handler call the application task made last,
                        \* and for init the resource that could not be created
    apiStatus           \* proto_handler_status_t of the application's last call

apiVars == <<allocated, uart_initialized, proto_initialized, apiCall, apiStatus>>

tempVars == <<last_temperature, last_humidity, temp_data_valid, evData, evStores,
              evBus, delivered, read_failed, flag_seen, value_read>>

txVars == <<tx_mutex, tx_complete_sem, tx_in_progress, tx_buffer, tx_pending_length>>
hwVars == <<hwBusy, hwPos, hwLen, wire, started>>
protoVars == <<seq_counter, streaming_active, stream_sensor, stream_interval_ms,
               stream_task_handle, stream_stop_requested>>
taskVars == <<pc, sendData, sendStatus, taskState, rxCmd, cmdsLeft, appLeft, notifsLeft, fault>>
obsVars == <<stats, events>>

vars == <<rxVars, obsVars, monVars, tempVars, waitVars, rtcVars, apiVars, txVars, hwVars, protoVars, taskVars>>

\* rx_state_t
RX_STATE_IDLE == "IDLE"
RX_STATE_LENGTH_LOW == "LENGTH_LOW"
RX_STATE_LENGTH_HIGH == "LENGTH_HIGH"
RX_STATE_DATA == "DATA"
RX_STATE_CRC_LOW == "CRC_LOW"
RX_STATE_CRC_HIGH == "CRC_HIGH"
RX_STATE_END == "END"

\* stm32_uart_event_type_t
STM32_UART_EVENT_PACKET_RECEIVED == "PACKET_RECEIVED"
STM32_UART_EVENT_TX_COMPLETE == "TX_COMPLETE"
STM32_UART_EVENT_RX_ERROR == "RX_ERROR"
STM32_UART_EVENT_CRC_ERROR == "CRC_ERROR"
STM32_UART_EVENT_TIMEOUT == "TIMEOUT"

\* the stm32_uart_event_t handed to the callback by notify_event
Event(type, data, length) == [type |-> type, data |-> data, length |-> length]

ZeroStats == [packets_sent |-> 0, packets_received |-> 0, crc_errors |-> 0,
              framing_errors |-> 0, overflow_errors |-> 0, timeout_errors |-> 0]

\* ------------------------------------------------------------------------
\* Receive state machine
\* ------------------------------------------------------------------------
LengthTooLarge_unchecked(len) == FALSE
LengthTooLarge_buffer(len) == len > STM32_UART_MAX_PACKET_SIZE
\* the bound test of RX_STATE_LENGTH_HIGH
LengthTooLarge(len) == len > STM32_UART_MAX_PACKET_SIZE - PACKET_OVERHEAD

\* LENGTH_HIGH: a frame without payload skips RX_STATE_DATA
AfterLength_data(len) == RX_STATE_DATA
AfterLength(len) == IF len = 0 THEN RX_STATE_CRC_LOW ELSE RX_STATE_DATA

RxTimedOut_anystate(gap) == rx_timeout_ms > 0 /\ gap > rx_timeout_ms

\* the staleness test at the head of rx_process_byte; gap = now - rx_last_byte_time
RxTimedOut(gap) ==
    /\ rx_timeout_ms > 0
    /\ rx_state # RX_STATE_IDLE
    /\ gap > rx_timeout_ms

\* rx_buffer[rx_index++] = byte
StoreByte(buf, idx, byte) ==
    IF idx + 1 <= Len(buf) THEN [buf EXCEPT ![idx + 1] = byte] ELSE Append(buf, byte)

\* if (state.rx_index >= state.rx_expected_length)
DataComplete_late(index, expected) == index > expected
DataComplete(index, expected) == index >= expected

IsStartMarker_inverted(byte) == byte # STM32_PACKET_START_MARKER
IsStartMarker(byte) == byte = STM32_PACKET_START_MARKER

\* if (byte == STM32_PACKET_END_MARKER)
IsEndMarker_any(byte) == TRUE
IsEndMarker(byte) == byte = STM32_PACKET_END_MARKER

CrcMatches_always(calculated, received) == TRUE
CrcMatches_lowonly(calculated, received) == calculated % 256 = received % 256
CrcMatches(calculated, received) == calculated = received

\* state.stats.timeout_errors++, framing_errors++, crc_errors++
CountError_dropped(counter) == counter
CountError(counter) == counter + 1

rx_process_byte(byte, gap) ==
    LET late == RxTimedOut(gap)
        \* state after the timeout branch (rx_reset_state)
        st  == IF late THEN RX_STATE_IDLE ELSE rx_state
        idx == IF late THEN 0 ELSE rx_index
        exp == IF late THEN 0 ELSE rx_expected_length
        crc == IF late THEN 0 ELSE rx_crc
        sts == IF late THEN [stats EXCEPT !.timeout_errors = CountError(@)] ELSE stats
        evs == IF late THEN Append(events, Event(STM32_UART_EVENT_TIMEOUT, <<>>, 0))
               ELSE events
    IN
    /\ rx_timeout_ms' = rx_timeout_ms
    /\ CASE st = RX_STATE_IDLE ->
              /\ IF IsStartMarker(byte)
                 THEN rx_state' = RX_STATE_LENGTH_LOW /\ rx_index' = 0
                 ELSE rx_state' = st /\ rx_index' = idx
              /\ rx_expected_length' = exp
              /\ rx_crc' = crc
              /\ rx_buffer' = rx_buffer
              /\ stats' = sts
              /\ events' = evs
         [] st = RX_STATE_LENGTH_LOW ->
              /\ rx_expected_length' = byte
              /\ rx_state' = RX_STATE_LENGTH_HIGH
              /\ rx_index' = idx
              /\ rx_crc' = crc
              /\ rx_buffer' = rx_buffer
              /\ stats' = sts
              /\ events' = evs
         [] st = RX_STATE_LENGTH_HIGH ->
              LET len == BitOr(exp, U16(byte * 256)) IN
              /\ IF LengthTooLarge(len)
                 THEN /\ stats' = [sts EXCEPT !.framing_errors = CountError(@)]
                      /\ rx_state' = RX_STATE_IDLE
                      /\ rx_index' = 0
                      /\ rx_expected_length' = 0
                      /\ rx_crc' = 0
                 ELSE /\ stats' = sts
                      /\ rx_state' = AfterLength(len)
                      /\ rx_index' = idx
                      /\ rx_expected_length' = len
                      /\ rx_crc' = crc
              /\ rx_buffer' = rx_buffer
              /\ events' = evs
         [] st = RX_STATE_DATA ->
              /\ rx_buffer' = StoreByte(rx_buffer, idx, byte)
              /\ rx_index' = idx + 1
              /\ rx_state' = IF DataComplete(idx + 1, exp) THEN RX_STATE_CRC_LOW ELSE st
              /\ rx_expected_length' = exp
              /\ rx_crc' = crc
              /\ stats' = sts
              /\ events' = evs
         [] st = RX_STATE_CRC_LOW ->
              /\ rx_crc' = byte
              /\ rx_state' = RX_STATE_CRC_HIGH
              /\ rx_index' = idx
              /\ rx_expected_length' = exp
              /\ rx_buffer' = rx_buffer
              /\ stats' = sts
              /\ events' = evs
         [] st = RX_STATE_CRC_HIGH ->
              /\ rx_crc' = BitOr(crc, U16(byte * 256))
              /\ rx_state' = RX_STATE_END
              /\ rx_index' = idx
              /\ rx_expected_length' = exp
              /\ rx_buffer' = rx_buffer
              /\ stats' = sts
              /\ events' = evs
         [] st = RX_STATE_END ->
              LET data == SubSeq(rx_buffer, 1, idx)
                  calculated_crc == stm32_uart_crc16(data)
              IN
              /\ IF IsEndMarker(byte)
                 THEN IF CrcMatches(calculated_crc, crc)
                      THEN /\ stats' = [sts EXCEPT !.packets_received = @ + 1]
                           /\ events' = Append(evs,
                                  Event(STM32_UART_EVENT_PACKET_RECEIVED, data, idx))
                      ELSE /\ stats' = [sts EXCEPT !.crc_errors = CountError(@)]
                           /\ events' = Append(evs, Event(STM32_UART_EVENT_CRC_ERROR, <<>>, 0))
                 ELSE /\ stats' = [sts EXCEPT !.framing_errors = CountError(@)]
                      /\ events' = Append(evs, Event(STM32_UART_EVENT_RX_ERROR, <<>>, 0))
              \* rx_reset_state
              /\ rx_state' = RX_STATE_IDLE
              /\ rx_index' = 0
              /\ rx_expected_length' = 0
              /\ rx_crc' = 0
              /\ rx_buffer' = rx_buffer

\* ------------------------------------------------------------------------
\* Byte streams fed to the receive task
\* ------------------------------------------------------------------------
Seqs(S, n) == UNION {[1..k -> S] : k \in 0..n}

PayloadBytes == {0, STM32_PACKET_END_MARKER, STM32_PACKET_START_MARKER}
GarbageBytes == {0, STM32_PACKET_START_MARKER}
FillerBytes == {0, STM32_PACKET_END_MARKER}

\* the largest payload the encoder accepts
LongPayload == [i \in 1..(STM32_UART_MAX_PACKET_SIZE - PACKET_OVERHEAD) |-> (i * 7) % 256]

Payloads == Seqs(PayloadBytes, MaxLen) \cup {LongPayload}
ShortPayloads == Seqs({0, STM32_PACKET_START_MARKER}, 1)

\* inter-byte gaps (now - rx_last_byte_time) and configured timeouts
Gaps == {0, DEFAULT_RX_TIMEOUT_MS, DEFAULT_RX_TIMEOUT_MS + 1}
RxTimeouts == {0, DEFAULT_RX_TIMEOUT_MS}

\* byte i (1-based) of frame f with bit k inverted
FlipBit(f, i, k) == [f EXCEPT ![i] = BitXor(@, Pow2(k))]

\* length fields (low, high) beyond the limit of 506
OversizeLengths == {<<251, 1>>, <<0, 2>>, <<255, 255>>}

Stream(kind, payload, pre, post, input) ==
    [kind |-> kind, payload |-> payload, pre |-> pre, post |-> post, input |-> input]

NoScenario == Stream("none", <<>>, <<>>, <<>>, <<>>)

RoundTripStreams ==
    {Stream("roundtrip", p, <<>>, <<>>, BuildFrame(p)) : p \in Payloads}

ResyncStreams ==
    {Stream("resync", p, g1, g2, g1 \o BuildFrame(p) \o g2) :
        p \in ShortPayloads,
        g1 \in Seqs(GarbageBytes, MaxGarbage),
        g2 \in Seqs(GarbageBytes, MaxTail)}

BitFlipStreams ==
    UNION {{Stream("bitflip", p, <<>>, <<>>, FlipBit(BuildFrame(p), i, k)) :
                i \in 4..(Len(p) + 5), k \in 0..7} :
           p \in Seqs(PayloadBytes, MaxLen)}

OversizeStreams ==
    {Stream("oversize", p, <<STM32_PACKET_START_MARKER, l[1], l[2]>>, g,
            <<STM32_PACKET_START_MARKER, l[1], l[2]>> \o g \o BuildFrame(p)) :
        p \in ShortPayloads, l \in OversizeLengths, g \in Seqs(FillerBytes, MaxGarbage)}

RxStreams == RoundTripStreams \cup ResyncStreams \cup BitFlipStreams \cup OversizeStreams

\* ------------------------------------------------------------------------
\* Tasks, status codes, protocol constants
\* ------------------------------------------------------------------------
NULL == 0
RX == -1                       \* the receive task; the dispatcher runs on it
APP == -2                      \* an application task using the codec API
StreamIds == 1..MaxTasks       \* handles of the stream tasks, in creation order
Tasks == {RX, APP} \cup StreamIds

UART_DRV_OK == 0
UART_DRV_ERR_TIMEOUT == -4
UART_DRV_ERR_TX_FAILED == -5

PACKET_TYPE_RESP == 2
PACKET_TYPE_NOTIFY == 3
CMD_GET_BUFFER_DATA == 1
CMD_START_MEASUREMENT == 2
CMD_STOP_MEASUREMENT == 3
RESP_OK == 0
RESP_ERROR == 1
RESP_NO_DATA == 6
SENSOR_TEMPERATURE == 1
SENSOR_CURRENT == 2

U16LE(x) == <<x % 256, (x \div 256) % 256>>
U32LE(x) == <<x % 256, (x \div 256) % 256, (x \div 65536) % 256, (x \div 16777216) % 256>>

\* the first PROTOCOL_HEADER_SIZE + payload_len bytes of a packed protocol_packet_t
PacketBytes(type, cmd_id, seq, status, payload) ==
    <<type, cmd_id, seq, status>> \o U16LE(Len(payload)) \o payload

\* packed sensor_sample_t
SampleBytes(sensor, timestamp, value) == <<sensor>> \o U32LE(timestamp) \o U32LE(value)

Sensors == {SENSOR_TEMPERATURE}
Intervals == {100}
Seqs8 == {7}
Ticks == {1000}

Commands ==
    {[id |-> CMD_START_MEASUREMENT, seq |-> q, sensor |-> sn, interval |-> iv] :
        q \in Seqs8, sn \in Sensors, iv \in Intervals}
    \cup {[id |-> c, seq |-> q, sensor |-> 0, interval |-> 0] :
        c \in {CMD_STOP_MEASUREMENT, CMD_GET_BUFFER_DATA}, q \in Seqs8}
NoCommand == [id |-> 0, seq |-> 0, sensor |-> 0, interval |-> 0]

AppPayloads == {<<1>>}

\* positions inside stm32_uart_send_packet_async
AsyncSendPcs == {"as_mutex", "as_sem", "as_build", "as_start"}

Runnable(t) == ~fault /\ (t \in StreamIds => taskState[t] = "alive")

\* where a task continues after a send or a wait returned
AfterCall(t) == IF t \in StreamIds THEN "sleep" ELSE "returned"

budgetVars == <<cmdsLeft, appLeft, notifsLeft>>

\* ------------------------------------------------------------------------
\* Initial state: after stm32_uart_init and protocol_handler_init
\* ------------------------------------------------------------------------
SemInitialCount == 1

InitSys ==
    /\ tx_mutex = NULL
    /\ tx_complete_sem = SemInitialCount
    /\ tx_in_progress = FALSE
    /\ tx_buffer = <<>>
    /\ tx_pending_length = 0
    /\ hwBusy = FALSE /\ hwPos = 0 /\ hwLen = 0
    /\ wire = <<>> /\ started = <<>>
    /\ seq_counter = 0
    /\ streaming_active = FALSE
    /\ stream_sensor = 0
    /\ stream_interval_ms = 0
    /\ stream_task_handle = NULL
    /\ stream_stop_requested = FALSE
    /\ pc = [t \in Tasks |-> IF t \in StreamIds THEN "none" ELSE "idle"]
    /\ sendData = [t \in Tasks |-> <<>>]
    /\ sendStatus = [t \in Tasks |-> UART_DRV_OK]
    /\ taskState = [k \in StreamIds |-> "none"]
    /\ rxCmd = NoCommand
    /\ fault = FALSE

\* ------------------------------------------------------------------------
\* Transport (hal_uart): asynchronous write, DMA engine, blocking write
\* ------------------------------------------------------------------------
\* hal_uart_write_async can start a transfer only when none is active
HalAsyncResults == IF hwBusy THEN {FALSE} ELSE {TRUE, FALSE}

\* byte i of the 512-byte static buffer (zero where nothing was written yet)
BufByte(buf, i) == IF i <= Len(buf) THEN buf[i] ELSE 0

\* the frame written over the front of the buffer; bytes behind it stay
WriteBuf(buf, frame) ==
    IF Len(buf) > Len(frame) THEN frame \o SubSeq(buf, Len(frame) + 1, Len(buf)) ELSE frame

\* bytes the DMA engine moves in one step: a transfer takes DmaSteps steps
DmaBlock(len) == (len + DmaSteps - 1) \div DmaSteps

\* the bytes of the frames accepted by the transport, in order
RECURSIVE Concat(_)
Concat(frames) == IF frames = <<>> THEN <<>> ELSE Head(frames) \o Concat(Tail(frames))

IsPrefix(s, t) == Len(s) <= Len(t) /\ s = SubSeq(t, 1, Len(s))

\* the record of the wire and of the accepted frames runs up to the first
\* byte that differs from the accepted frames
Intact == IsPrefix(wire, Concat(started))

\* the DMA engine moves the next bytes of the buffer to the wire
DmaTransfer ==
    /\ ~fault
    /\ hwBusy /\ hwPos <= hwLen
    /\ LET last == IF hwPos + DmaBlock(hwLen) - 1 > hwLen
                   THEN hwLen ELSE hwPos + DmaBlock(hwLen) - 1
       IN  /\ wire' = IF Intact
                      THEN wire \o [i \in 1..(last - hwPos + 1) |->
                                       BufByte(tx_buffer, hwPos + i - 1)]
                      ELSE wire
           /\ hwPos' = last + 1
    /\ UNCHANGED <<hwBusy, hwLen, started>>
    /\ UNCHANGED <<rxVars, monVars, tempVars, waitVars, rtcVars, apiVars, obsVars, txVars, protoVars, taskVars>>

\* transfer complete: HAL_UART_EVENT_TX_DONE delivered to uart_hal_event_callback.
\* The TX_COMPLETE event goes to packet_rx_callback, which returns at once for
\* every event other than PACKET_RECEIVED.  The record of the wire starts
\* afresh when everything accepted so far went out intact.
uart_hal_event_callback ==
    /\ ~fault
    /\ hwBusy /\ hwPos > hwLen
    /\ hwBusy' = FALSE
    /\ tx_in_progress' = FALSE
    /\ tx_complete_sem' = 1
    /\ stats' = [stats EXCEPT !.packets_sent = @ + 1]
    /\ IF wire = Concat(started)
       THEN wire' = <<>> /\ started' = <<>>
       ELSE UNCHANGED <<wire, started>>
    /\ tx_done_seen' = (pc[APP] = "wt_sem")
    /\ UNCHANGED <<hwPos, hwLen, events>>
    /\ UNCHANGED <<tx_mutex, tx_buffer, tx_pending_length>>
    /\ UNCHANGED <<rxVars, monVars, tempVars, rtcVars, apiVars, protoVars, taskVars>>

\* ------------------------------------------------------------------------
\* stm32_uart_send_packet_async, executed by task t
\* ------------------------------------------------------------------------
\* entry: initialized, length within bounds, then the mutex is requested
AsyncSendCall(t, data) ==
    /\ pc' = [pc EXCEPT ![t] = "as_mutex"]
    /\ sendData' = [sendData EXCEPT ![t] = data]

\* the call returns its status; the argument goes out of scope
Return(t, status) ==
    /\ pc' = [pc EXCEPT ![t] = AfterCall(t)]
    /\ sendStatus' = [sendStatus EXCEPT ![t] = status]
    /\ sendData' = [sendData EXCEPT ![t] = <<>>]

\* os_mutex_give(state.tx_mutex): the owner of the mutex afterwards
os_mutex_give_skipped(owner) == owner
os_mutex_give(owner) == NULL

\* if (state.tx_in_progress)
MustWaitForPrevious(in_progress) == in_progress

\* os_mutex_take succeeded; then the test of tx_in_progress
AsMutexTake(t) ==
    /\ Runnable(t) /\ pc[t] = "as_mutex"
    /\ tx_mutex = NULL
    /\ tx_mutex' = t
    /\ pc' = [pc EXCEPT ![t] = IF MustWaitForPrevious(tx_in_progress) THEN "as_sem" ELSE "as_build"]
    /\ UNCHANGED <<tx_complete_sem, tx_in_progress, tx_buffer, tx_pending_length>>
    /\ UNCHANGED <<sendData, sendStatus, taskState, rxCmd, budgetVars, fault>>
    /\ UNCHANGED <<rxVars, monVars, tempVars, waitVars, rtcVars, apiVars, obsVars, hwVars, protoVars>>

\* TX_MUTEX_TIMEOUT_MS elapsed while another task held the mutex
AsMutexTimeout(t) ==
    /\ Runnable(t) /\ pc[t] = "as_mutex"
    /\ tx_mutex # NULL
    /\ Return(t, UART_DRV_ERR_TIMEOUT)
    /\ UNCHANGED <<taskState, rxCmd, budgetVars, fault>>
    /\ UNCHANGED <<rxVars, monVars, tempVars, waitVars, rtcVars, apiVars, obsVars, txVars, hwVars, protoVars>>

\* os_semaphore_take(tx_complete_sem) succeeded
AsSemTake(t) ==
    /\ Runnable(t) /\ pc[t] = "as_sem"
    /\ tx_complete_sem = 1
    /\ tx_complete_sem' = 0
    /\ pc' = [pc EXCEPT ![t] = "as_build"]
    /\ UNCHANGED <<tx_mutex, tx_in_progress, tx_buffer, tx_pending_length>>
    /\ UNCHANGED <<sendData, sendStatus, taskState, rxCmd, budgetVars, fault>>
    /\ UNCHANGED <<rxVars, monVars, tempVars, waitVars, rtcVars, apiVars, obsVars, hwVars, protoVars>>

\* the semaphore was not given within TX_MUTEX_TIMEOUT_MS: give the mutex, fail
AsSemTimeout(t) ==
    /\ Runnable(t) /\ pc[t] = "as_sem"
    /\ tx_complete_sem = 0
    /\ tx_mutex' = os_mutex_give(tx_mutex)
    /\ Return(t, UART_DRV_ERR_TIMEOUT)
    /\ UNCHANGED <<tx_complete_sem, tx_in_progress, tx_buffer, tx_pending_length>>
    /\ UNCHANGED <<taskState, rxCmd, budgetVars, fault>>
    /\ UNCHANGED <<rxVars, monVars, tempVars, waitVars, rtcVars, apiVars, obsVars, hwVars, protoVars>>

\* frame built in the static buffer, pending length stored, in-progress set
AsBuild(t) ==
    /\ Runnable(t) /\ pc[t] = "as_build"
    /\ tx_buffer' = WriteBuf(tx_buffer, BuildFrame(sendData[t]))
    /\ tx_pending_length' = Len(sendData[t])
    /\ tx_in_progress' = TRUE
    /\ pc' = [pc EXCEPT ![t] = "as_start"]
    /\ UNCHANGED <<tx_mutex, tx_complete_sem>>
    /\ UNCHANGED <<sendData, sendStatus, taskState, rxCmd, budgetVars, fault>>
    /\ UNCHANGED <<rxVars, monVars, tempVars, waitVars, rtcVars, apiVars, obsVars, hwVars, protoVars>>

\* hal_uart_write_async(state.tx_buffer, tx_index); on failure tx_in_progress is
\* cleared; os_mutex_give and return
AsStart(t) ==
    /\ Runnable(t) /\ pc[t] = "as_start"
    /\ \E ok \in HalAsyncResults :
          IF ok
          THEN /\ hwBusy' = TRUE
               /\ hwPos' = 1
               /\ hwLen' = Len(sendData[t]) + PACKET_OVERHEAD
               /\ started' = IF Intact
                             THEN Append(started, SubSeq(tx_buffer, 1, Len(sendData[t]) + PACKET_OVERHEAD))
                             ELSE started
               /\ Return(t, UART_DRV_OK)
               /\ UNCHANGED tx_in_progress
          ELSE /\ tx_in_progress' = FALSE
               /\ Return(t, UART_DRV_ERR_TX_FAILED)
               /\ UNCHANGED <<hwBusy, hwPos, hwLen, started>>
    /\ tx_mutex' = os_mutex_give(tx_mutex)
    /\ UNCHANGED <<wire, tx_complete_sem, tx_buffer, tx_pending_length>>
    /\ UNCHANGED <<taskState, rxCmd, budgetVars, fault>>
    /\ UNCHANGED <<rxVars, monVars, tempVars, waitVars, rtcVars, apiVars, obsVars, protoVars>>

stm32_uart_send_packet_async(t) ==
    \/ AsMutexTake(t) \/ AsMutexTimeout(t)
    \/ AsSemTake(t) \/ AsSemTimeout(t)
    \/ AsBuild(t) \/ AsStart(t)

\* ------------------------------------------------------------------------
\* stm32_uart_send_packet (blocking) and stm32_uart_wait_tx_complete
\* ------------------------------------------------------------------------
\* hal_uart_write: all bytes written, or an error; it cannot transmit while the
\* DMA engine owns the transmitter
HalWriteResults == IF hwBusy THEN {FALSE} ELSE {TRUE, FALSE}

SyMutexTake(t) ==
    /\ Runnable(t) /\ pc[t] = "sy_mutex"
    /\ tx_mutex = NULL
    /\ tx_mutex' = t
    /\ pc' = [pc EXCEPT ![t] = "sy_write"]
    /\ UNCHANGED <<tx_complete_sem, tx_in_progress, tx_buffer, tx_pending_length>>
    /\ UNCHANGED <<sendData, sendStatus, taskState, rxCmd, budgetVars, fault>>
    /\ UNCHANGED <<rxVars, monVars, tempVars, waitVars, rtcVars, apiVars, obsVars, hwVars, protoVars>>

SyMutexTimeout(t) ==
    /\ Runnable(t) /\ pc[t] = "sy_mutex"
    /\ tx_mutex # NULL
    /\ Return(t, UART_DRV_ERR_TIMEOUT)
    /\ UNCHANGED <<taskState, rxCmd, budgetVars, fault>>
    /\ UNCHANGED <<rxVars, monVars, tempVars, waitVars, rtcVars, apiVars, obsVars, txVars, hwVars, protoVars>>

\* frame built in the local buffer and written with hal_uart_write, which
\* returns when all bytes are out or its timeout elapsed; os_mutex_give; on
\* success packets_sent++ and the TX_COMPLETE event
SyWrite(t) ==
    /\ Runnable(t) /\ pc[t] = "sy_write"
    /\ \E ok \in HalWriteResults :
          IF ok
          THEN /\ IF Intact
                  THEN /\ wire' = wire \o SyncFrame(sendData[t])
                       /\ started' = Append(started, SyncFrame(sendData[t]))
                  ELSE UNCHANGED <<wire, started>>
               /\ stats' = [stats EXCEPT !.packets_sent = @ + 1]
               /\ events' = Append(events,
                      Event(STM32_UART_EVENT_TX_COMPLETE, <<>>, Len(sendData[t])))
               /\ Return(t, UART_DRV_OK)
          ELSE /\ Return(t, UART_DRV_ERR_TX_FAILED)
               /\ UNCHANGED <<wire, started, stats, events>>
    /\ tx_mutex' = os_mutex_give(tx_mutex)
    /\ UNCHANGED <<hwBusy, hwPos, hwLen>>
    /\ UNCHANGED <<tx_complete_sem, tx_in_progress, tx_buffer, tx_pending_length>>
    /\ UNCHANGED <<taskState, rxCmd, budgetVars, fault>>
    /\ UNCHANGED <<rxVars, monVars, tempVars, waitVars, rtcVars, apiVars, protoVars>>

stm32_uart_send_packet(t) ==
    \/ SyMutexTake(t) \/ SyMutexTimeout(t) \/ SyWrite(t)

\* stm32_uart_send_raw: the bytes go out unframed; it returns what
\* hal_uart_write returned, the number of bytes written or -1
RAW_SEND_FAILED == -1

RawMutexTake(t) ==
    /\ Runnable(t) /\ pc[t] = "raw_mutex"
    /\ tx_mutex = NULL
    /\ tx_mutex' = t
    /\ pc' = [pc EXCEPT ![t] = "raw_write"]
    /\ UNCHANGED <<tx_complete_sem, tx_in_progress, tx_buffer, tx_pending_length>>
    /\ UNCHANGED <<sendData, sendStatus, taskState, rxCmd, budgetVars, fault>>
    /\ UNCHANGED <<rxVars, monVars, tempVars, waitVars, rtcVars, apiVars, obsVars, hwVars, protoVars>>

RawMutexTimeout(t) ==
    /\ Runnable(t) /\ pc[t] = "raw_mutex"
    /\ tx_mutex # NULL
    /\ Return(t, RAW_SEND_FAILED)
    /\ UNCHANGED <<taskState, rxCmd, budgetVars, fault>>
    /\ UNCHANGED <<rxVars, monVars, tempVars, waitVars, rtcVars, apiVars, obsVars, txVars, hwVars, protoVars>>

\* hal_uart_write(data, length, timeout_ms); os_mutex_give; return sent
RawWrite(t) ==
    /\ Runnable(t) /\ pc[t] = "raw_write"
    /\ \E ok \in HalWriteResults :
          IF ok
          THEN /\ IF Intact
                  THEN /\ wire' = wire \o sendData[t]
                       /\ started' = Append(started, sendData[t])
                  ELSE UNCHANGED <<wire, started>>
               /\ Return(t, Len(sendData[t]))
          ELSE /\ Return(t, RAW_SEND_FAILED)
               /\ UNCHANGED <<wire, started>>
    /\ tx_mutex' = os_mutex_give(tx_mutex)
    /\ UNCHANGED <<hwBusy, hwPos, hwLen>>
    /\ UNCHANGED <<tx_complete_sem, tx_in_progress, tx_buffer, tx_pending_length>>
    /\ UNCHANGED <<taskState, rxCmd, budgetVars, fault>>
    /\ UNCHANGED <<rxVars, monVars, tempVars, waitVars, rtcVars, apiVars, obsVars, protoVars>>

stm32_uart_send_raw(t) ==
    \/ RawMutexTake(t) \/ RawMutexTimeout(t) \/ RawWrite(t)

\* if (!state.tx_in_progress) return OK; else take the semaphore
WtCheck(t) ==
    /\ Runnable(t) /\ pc[t] = "wt_check"
    /\ IF tx_in_progress
       THEN pc' = [pc EXCEPT ![t] = "wt_sem"] /\ UNCHANGED <<sendData, sendStatus>>
       ELSE Return(t, UART_DRV_OK)
    /\ UNCHANGED <<taskState, rxCmd, budgetVars, fault>>
    /\ UNCHANGED <<rxVars, monVars, tempVars, waitVars, rtcVars, apiVars, obsVars, txVars, hwVars, protoVars>>

\* the semaphore is taken and given back
WtSemTake(t) ==
    /\ Runnable(t) /\ pc[t] = "wt_sem"
    /\ tx_complete_sem = 1
    /\ Return(t, UART_DRV_OK)
    /\ tx_done_seen' = FALSE
    /\ UNCHANGED <<taskState, rxCmd, budgetVars, fault>>
    /\ UNCHANGED <<rxVars, monVars, tempVars, rtcVars, apiVars, obsVars, txVars, hwVars, protoVars>>

\* timeout_ms (finite) elapsed without the semaphore being given
WtSemTimeout(t) ==
    /\ Runnable(t) /\ pc[t] = "wt_sem"
    /\ tx_complete_sem = 0
    /\ Return(t, UART_DRV_ERR_TIMEOUT)
    /\ tx_done_seen' = FALSE
    /\ UNCHANGED <<taskState, rxCmd, budgetVars, fault>>
    /\ UNCHANGED <<rxVars, monVars, tempVars, rtcVars, apiVars, obsVars, txVars, hwVars, protoVars>>

stm32_uart_wait_tx_complete(t) ==
    \/ WtCheck(t) \/ WtSemTake(t) \/ WtSemTimeout(t)

\* the application task calls a send or the wait
AppCall ==
    /\ Runnable(APP) /\ pc[APP] = "idle"
    /\ appLeft > 0
    /\ appLeft' = appLeft - 1
    /\ \/ \E d \in AppPayloads :
             /\ pc' = [pc EXCEPT ![APP] = "sy_mutex"]
             /\ sendData' = [sendData EXCEPT ![APP] = d]
       \/ \E d \in AppPayloads : AsyncSendCall(APP, d)
       \/ \E d \in AppPayloads :
             /\ pc' = [pc EXCEPT ![APP] = "raw_mutex"]
             /\ sendData' = [sendData EXCEPT ![APP] = d]
       \/ /\ pc' = [pc EXCEPT ![APP] = "wt_check"]
          /\ UNCHANGED sendData
    /\ UNCHANGED <<sendStatus, taskState, rxCmd, cmdsLeft, notifsLeft, fault>>
    /\ UNCHANGED <<rxVars, monVars, tempVars, waitVars, rtcVars, apiVars, obsVars, txVars, hwVars, protoVars>>

\* the application is done with the status
AppReturn ==
    /\ Runnable(APP) /\ pc[APP] = "returned"
    /\ pc' = [pc EXCEPT ![APP] = "idle"]
    /\ sendStatus' = [sendStatus EXCEPT ![APP] = UART_DRV_OK]
    /\ UNCHANGED <<sendData, taskState, rxCmd, budgetVars, fault>>
    /\ UNCHANGED <<rxVars, monVars, tempVars, waitVars, rtcVars, apiVars, obsVars, txVars, hwVars, protoVars>>

\* ------------------------------------------------------------------------
\* Protocol handler: dispatch on the receive task
\* ------------------------------------------------------------------------
\* protocol_handler_send_response: the packet handed to the asynchronous send
ResponsePacket(cmd_id, seq, status) ==
    PacketBytes(PACKET_TYPE_RESP, cmd_id, seq, status, <<>>)

\* handle_command: a validated Command packet reaches its handler
handle_command ==
    /\ Runnable(RX) /\ pc[RX] = "idle"
    /\ cmdsLeft > 0
    /\ cmdsLeft' = cmdsLeft - 1
    /\ \E cmd \in Commands :
          /\ rxCmd' = cmd
          /\ CASE cmd.id = CMD_START_MEASUREMENT ->
                    pc' = [pc EXCEPT ![RX] = "start_check"] /\ UNCHANGED sendData
               [] cmd.id = CMD_STOP_MEASUREMENT ->
                    pc' = [pc EXCEPT ![RX] = "stop_check"] /\ UNCHANGED sendData
               [] OTHER ->
                    \* handle_cmd_get_buffer_data
                    AsyncSendCall(RX, ResponsePacket(cmd.id, cmd.seq, RESP_NO_DATA))
    /\ UNCHANGED <<sendStatus, taskState, appLeft, notifsLeft, fault>>
    /\ UNCHANGED <<rxVars, monVars, tempVars, waitVars, rtcVars, apiVars, obsVars, txVars, hwVars, protoVars>>

\* the handler ignores the status of its response; packet_rx_callback returns
HandlerReturn ==
    /\ Runnable(RX) /\ pc[RX] = "returned"
    /\ pc' = [pc EXCEPT ![RX] = "idle"]
    /\ sendStatus' = [sendStatus EXCEPT ![RX] = UART_DRV_OK]
    /\ rxCmd' = NoCommand
    /\ UNCHANGED <<sendData, taskState, budgetVars, fault>>
    /\ UNCHANGED <<rxVars, monVars, tempVars, waitVars, rtcVars, apiVars, obsVars, txVars, hwVars, protoVars>>

\* proto_handler_status_t
PROTO_HANDLER_OK == 0
PROTO_HANDLER_ERR_NOT_INIT == -1
PROTO_HANDLER_ERR_ALREADY_INIT == -2
PROTO_HANDLER_ERR_TX_FAILED == -3

NoCall == [op |-> "none", sensor |-> 0, interval |-> 0, failure |-> "none"]

\* the caller of start_stream and stop_stream is the dispatcher on the receive
\* task or the application task: what it called, and with which arguments
StartsStream(t) == IF t = RX THEN rxCmd.id = CMD_START_MEASUREMENT ELSE apiCall.op = "start"
CallSensor(t) == IF t = RX THEN rxCmd.sensor ELSE apiCall.sensor
CallInterval(t) == IF t = RX THEN rxCmd.interval ELSE apiCall.interval

\* if (!state.initialized) return PROTO_HANDLER_ERR_NOT_INIT;
HandlerReady_always(initialized) == TRUE
HandlerReady(initialized) == initialized

\* handle_cmd_start_measurement: (status == PROTO_HANDLER_OK) ? RESP_OK : RESP_ERROR
StartResponse_ok(started_ok) == RESP_OK
StartResponse(started_ok) == IF started_ok THEN RESP_OK ELSE RESP_ERROR

\* protocol_handler_start_stream returns: the dispatcher answers the command,
\* the application has the status
StartReturns(t, started_ok) ==
    IF t = RX
    THEN /\ AsyncSendCall(RX, ResponsePacket(rxCmd.id, rxCmd.seq, StartResponse(started_ok)))
         /\ UNCHANGED apiStatus
    ELSE /\ pc' = [pc EXCEPT ![t] = "returned"]
         /\ apiStatus' = IF started_ok THEN PROTO_HANDLER_OK ELSE PROTO_HANDLER_ERR_NOT_INIT
         /\ UNCHANGED sendData

\* protocol_handler_start_stream: if (state.streaming_active) stop first
StartStopsRunning_never(active) == FALSE
StartStopsRunning(active) == active

StartCheck(t) ==
    /\ Runnable(t) /\ pc[t] = "start_check"
    /\ IF HandlerReady(proto_initialized)
       THEN /\ pc' = [pc EXCEPT ![t] = IF StartStopsRunning(streaming_active)
                                       THEN "stop_check" ELSE "start_store"]
            /\ UNCHANGED <<sendData, apiStatus>>
       ELSE StartReturns(t, FALSE)
    /\ UNCHANGED <<allocated, uart_initialized, proto_initialized, apiCall>>
    /\ UNCHANGED <<sendStatus, taskState, rxCmd, budgetVars, fault>>
    /\ UNCHANGED <<rxVars, monVars, tempVars, waitVars, rtcVars, obsVars, txVars, hwVars, protoVars>>

\* return of protocol_handler_stop_stream to its caller
StopReturn(t) ==
    IF StartsStream(t)
    THEN pc' = [pc EXCEPT ![t] = "start_store"] /\ UNCHANGED sendData
    ELSE IF t = RX
         THEN \* handle_cmd_stop_measurement answers RESP_OK
              AsyncSendCall(RX, ResponsePacket(rxCmd.id, rxCmd.seq, RESP_OK))
         ELSE pc' = [pc EXCEPT ![t] = "returned"] /\ UNCHANGED sendData

\* if (!state.streaming_active) return PROTO_HANDLER_OK;
StopIsNoop_never(active) == FALSE
StopIsNoop(active) == ~active

\* protocol_handler_stop_stream: early return, or the stop request is raised
StopCheck(t) ==
    /\ Runnable(t) /\ pc[t] = "stop_check"
    /\ IF StopIsNoop(streaming_active)
       THEN StopReturn(t) /\ UNCHANGED stream_stop_requested
       ELSE /\ stream_stop_requested' = TRUE
            /\ pc' = [pc EXCEPT ![t] = "stop_wait"]
            /\ UNCHANGED sendData
    /\ UNCHANGED <<seq_counter, streaming_active, stream_sensor, stream_interval_ms,
                   stream_task_handle>>
    /\ UNCHANGED <<sendStatus, taskState, rxCmd, budgetVars, fault>>
    /\ UNCHANGED <<rxVars, monVars, tempVars, waitVars, rtcVars, apiVars, obsVars, txVars, hwVars>>

\* the polling loop ends because the task cleared streaming_active
StopWaitDone(t) ==
    /\ Runnable(t) /\ pc[t] = "stop_wait"
    /\ ~streaming_active
    /\ pc' = [pc EXCEPT ![t] = "stop_delete"]
    /\ UNCHANGED <<sendData, sendStatus, taskState, rxCmd, budgetVars, fault>>
    /\ UNCHANGED <<rxVars, monVars, tempVars, waitVars, rtcVars, apiVars, obsVars, txVars, hwVars, protoVars>>

\* the polling loop ends after its 100 polls of 10 ms with the flag still set
StopWaitExpire(t) ==
    /\ Runnable(t) /\ pc[t] = "stop_wait"
    /\ streaming_active
    /\ pc' = [pc EXCEPT ![t] = "stop_delete"]
    /\ UNCHANGED <<sendData, sendStatus, taskState, rxCmd, budgetVars, fault>>
    /\ UNCHANGED <<rxVars, monVars, tempVars, waitVars, rtcVars, apiVars, obsVars, txVars, hwVars, protoVars>>

\* the task stop_stream deletes through the stored handle
TaskToDelete_none(handle) == NULL
TaskToDelete(handle) == handle

\* os_task_delete(handle) for a task that already deleted itself works on a
\* released control block: the kernel either survives or stops
DeleteOutcomes(h) ==
    IF h # NULL /\ taskState[h] = "deleted" THEN {FALSE, TRUE} ELSE {FALSE}

\* a task deleted by another task stops wherever it is
Killed(h) ==
    /\ taskState' = [taskState EXCEPT ![h] = "deleted"]
    /\ sendStatus' = [sendStatus EXCEPT ![h] = UART_DRV_OK]

\* os_task_delete(handle); handle = NULL; streaming_active = false; return
StopDelete(t) ==
    /\ Runnable(t) /\ pc[t] = "stop_delete"
    /\ LET h == TaskToDelete(stream_task_handle) IN
       \E stops \in DeleteOutcomes(h) :
          IF stops
          THEN /\ fault' = TRUE
               /\ UNCHANGED <<pc, sendData, sendStatus, taskState, protoVars>>
          ELSE /\ IF h # NULL /\ taskState[h] = "alive"
                  THEN /\ Killed(h)
                       /\ pc' = [pc EXCEPT ![t] = IF StartsStream(t) THEN "start_store"
                                                  ELSE IF t = RX THEN "as_mutex"
                                                  ELSE "returned",
                                           ![h] = "dead"]
                       /\ sendData' = [sendData EXCEPT
                              ![t] = IF StartsStream(t) \/ t # RX THEN @
                                     ELSE ResponsePacket(rxCmd.id, rxCmd.seq, RESP_OK),
                              ![h] = <<>>]
                  ELSE StopReturn(t) /\ UNCHANGED <<taskState, sendStatus>>
               /\ stream_task_handle' = NULL
               /\ streaming_active' = FALSE
               /\ UNCHANGED <<fault, seq_counter, stream_sensor, stream_interval_ms,
                              stream_stop_requested>>
    /\ UNCHANGED <<rxCmd, budgetVars>>
    /\ UNCHANGED <<rxVars, monVars, tempVars, waitVars, rtcVars, apiVars, obsVars, txVars, hwVars>>

\* sensor, interval stored and the stop request cleared
StartStore(t) ==
    /\ Runnable(t) /\ pc[t] = "start_store"
    /\ stream_sensor' = CallSensor(t)
    /\ stream_interval_ms' = CallInterval(t)
    /\ stream_stop_requested' = FALSE
    /\ pc' = [pc EXCEPT ![t] = "start_create"]
    /\ UNCHANGED <<seq_counter, streaming_active, stream_task_handle>>
    /\ UNCHANGED <<sendData, sendStatus, taskState, rxCmd, budgetVars, fault>>
    /\ UNCHANGED <<rxVars, monVars, tempVars, waitVars, rtcVars, apiVars, obsVars, txVars, hwVars>>

FreeIds == {k \in StreamIds : taskState[k] = "none"}

\* os_task_create: the task exists and runs, or the creation fails and
\* start_stream returns PROTO_HANDLER_ERR_NOT_INIT
StartCreate(t) ==
    /\ Runnable(t) /\ pc[t] = "start_create"
    /\ \/ /\ FreeIds # {}
          /\ LET k == CHOOSE i \in FreeIds : \A j \in FreeIds : i <= j IN
             /\ taskState' = [taskState EXCEPT ![k] = "alive"]
             /\ stream_task_handle' = k
             /\ pc' = [pc EXCEPT ![t] = "start_active", ![k] = "loop"]
             /\ UNCHANGED <<sendData, apiStatus>>
       \/ /\ StartReturns(t, FALSE)
          /\ UNCHANGED <<taskState, stream_task_handle>>
    /\ UNCHANGED <<seq_counter, streaming_active, stream_sensor, stream_interval_ms,
                   stream_stop_requested>>
    /\ UNCHANGED <<allocated, uart_initialized, proto_initialized, apiCall>>
    /\ UNCHANGED <<sendStatus, rxCmd, budgetVars, fault>>
    /\ UNCHANGED <<rxVars, monVars, tempVars, waitVars, rtcVars, obsVars, txVars, hwVars>>

\* state.streaming_active = true; return PROTO_HANDLER_OK
StartActive(t) ==
    /\ Runnable(t) /\ pc[t] = "start_active"
    /\ streaming_active' = TRUE
    /\ StartReturns(t, TRUE)
    /\ UNCHANGED <<seq_counter, stream_sensor, stream_interval_ms, stream_task_handle,
                   stream_stop_requested>>
    /\ UNCHANGED <<allocated, uart_initialized, proto_initialized, apiCall>>
    /\ UNCHANGED <<sendStatus, taskState, rxCmd, budgetVars, fault>>
    /\ UNCHANGED <<rxVars, monVars, tempVars, waitVars, rtcVars, obsVars, txVars, hwVars>>

protocol_handler_start_stream(t) == StartCheck(t) \/ StartStore(t) \/ StartCreate(t) \/ StartActive(t)
protocol_handler_stop_stream(t) ==
    StopCheck(t) \/ StopWaitDone(t) \/ StopWaitExpire(t) \/ StopDelete(t)

\* ------------------------------------------------------------------------
\* Protocol handler: the stream task
\* ------------------------------------------------------------------------
\* temperature_data_t as the sensor service publishes it; temperatures and
\* humidities in thousandths of a unit
Temperatures == {23456}
Humidities == {40000}
TemperatureEvents ==
    [temperature : Temperatures, humidity : Humidities, sensor_ok : {TRUE}]
    \cup {[temperature |-> 0, humidity |-> 0, sensor_ok |-> FALSE]}
NoEvent == [temperature |-> 0, humidity |-> 0, sensor_ok |-> FALSE]

\* current_monitor_get_instant_reading: the outcome of ina226_read and
\* current_mA in millionths of a milliampere; ina_data is a local without an
\* initializer, a read that failed leaves in it whatever it held
CurrentReadings ==
    [ok : {TRUE}, current : {12345678}] \cup [ok : {FALSE}, current : {0, 12345678}]

\* what one pass of the loop found: for the temperature the flag it tested and
\* the cached value it loaded, for the current the outcome of the read
ReadingFound(sensor, flag, temperature, reading) ==
    IF sensor = SENSOR_CURRENT
    THEN [valid |-> reading.ok, value |-> reading.current]
    ELSE [valid |-> flag, value |-> temperature]

\* static protocol_state_t state = {0}; protocol_handler_init clears the flag
InitTempCache ==
    /\ last_temperature = 0
    /\ last_humidity = 0
    /\ temp_data_valid = FALSE
    /\ evData = NoEvent
    /\ evStores = {}
    /\ delivered = {}
    /\ read_failed = FALSE
    /\ flag_seen = [k \in StreamIds |-> FALSE]
    /\ value_read = [k \in StreamIds |-> 0]

\* the stores temperature_event_handler performs for an event
HandlerStores(d) ==
    IF d.sensor_ok THEN {"last_temperature", "last_humidity", "temp_data_valid"}
    ELSE {"temp_data_valid"}

\* event_type_t
EVENT_TEMPERATURE_UPDATED == 2
EVENT_SENSOR_ERROR == 3

\* temperature_sensor_run: a read that succeeded is published as
\* EVENT_TEMPERATURE_UPDATED, a read that failed as EVENT_SENSOR_ERROR
PublishedType(d) == IF d.sensor_ok THEN EVENT_TEMPERATURE_UPDATED ELSE EVENT_SENSOR_ERROR

\* event_bus_subscribe(EVENT_TEMPERATURE_UPDATED, temperature_event_handler):
\* the only subscription of the protocol handler
Subscribed(type) == type = EVENT_TEMPERATURE_UPDATED

\* event_bus_process takes the report of temperature_sensor_run from the queue
\* and calls the callbacks subscribed to its type: temperature_event_handler
\* for an update, none of the protocol handler for a sensor error
TempEventBegin ==
    /\ ~fault /\ evStores = {} /\ evBus
    /\ evBus' = evBus
    /\ \E d \in TemperatureEvents :
          /\ read_failed' = ~d.sensor_ok
          /\ IF Subscribed(PublishedType(d))
             THEN /\ evData' = d
                  /\ evStores' = HandlerStores(d)
                  /\ delivered' =
                        IF d.sensor_ok THEN delivered \cup {d.temperature} ELSE delivered
             ELSE UNCHANGED <<evData, evStores, delivered>>
    /\ UNCHANGED <<last_temperature, last_humidity, temp_data_valid, flag_seen, value_read>>
    /\ UNCHANGED <<rxVars, monVars, waitVars, rtcVars, apiVars, obsVars, txVars, hwVars, protoVars, taskVars>>

\* one store of the callback reaches memory. last_temperature, last_humidity
\* and temp_data_valid are plain fields, neither volatile nor atomic, written
\* here and read by stream_task without a lock or a barrier: the accesses
\* race, and the order in which the build performs the stores is not fixed
\* by the order of the assignments
TempStore ==
    /\ ~fault /\ evStores # {}
    /\ \E st \in evStores :
          /\ evStores' = evStores \ {st}
          /\ evData' = IF evStores = {st} THEN NoEvent ELSE evData
          /\ last_temperature' =
                IF st = "last_temperature" THEN evData.temperature ELSE last_temperature
          /\ last_humidity' = IF st = "last_humidity" THEN evData.humidity ELSE last_humidity
          /\ temp_data_valid' = IF st = "temp_data_valid" THEN evData.sensor_ok ELSE temp_data_valid
    /\ UNCHANGED <<evBus, delivered, read_failed, flag_seen, value_read>>
    /\ UNCHANGED <<rxVars, monVars, waitVars, rtcVars, apiVars, obsVars, txVars, hwVars, protoVars, taskVars>>

temperature_event_handler == TempEventBegin \/ TempStore

\* if (state.temp_data_valid)
FlagTested_set(valid) == TRUE
FlagTested(valid) == valid

\* (int32_t)(x * 100) of a float x held in thousandths, (int32_t)(x * 1000)
\* of one held in millionths: the conversion truncates
Centi(thousandths) == thousandths \div 10
Micro(millionths) == millionths \div 1000

\* sample.value of one pass of the loop of stream_task
SampleValue_cached(sensor, valid, temperature, reading) ==
    CASE sensor = SENSOR_TEMPERATURE -> Centi(temperature)
      [] sensor = SENSOR_CURRENT -> Micro(reading.current)
      [] OTHER -> 0
SampleValue(sensor, valid, temperature, reading) ==
    CASE sensor = SENSOR_TEMPERATURE -> IF valid THEN Centi(temperature) ELSE 0
      [] sensor = SENSOR_CURRENT -> IF reading.ok THEN Micro(reading.current) ELSE 0
      [] OTHER -> 0

\* protocol_handler_send_sensor_sample: the sample leaves as a notification
SendSample(k, ts, value) ==
    /\ notifsLeft > 0
    /\ notifsLeft' = notifsLeft - 1
    /\ AsyncSendCall(k, PacketBytes(PACKET_TYPE_NOTIFY, CMD_START_MEASUREMENT,
                         seq_counter, RESP_OK, SampleBytes(stream_sensor, ts, value)))
    /\ seq_counter' = (seq_counter + 1) % 256

\* the loop of stream_task, the test of the flag and the load of the
\* temperature as two steps: the test
StreamTestFlag(k) ==
    /\ Runnable(k) /\ pc[k] = "loop"
    /\ ~stream_stop_requested
    /\ notifsLeft > 0
    /\ flag_seen' = [flag_seen EXCEPT ![k] = IF stream_sensor = SENSOR_TEMPERATURE
                                             THEN FlagTested(temp_data_valid) ELSE @]
    /\ pc' = [pc EXCEPT ![k] = "sample"]
    /\ UNCHANGED <<last_temperature, last_humidity, temp_data_valid, evData, evStores,
                   evBus, delivered, read_failed, value_read>>
    /\ UNCHANGED <<sendData, sendStatus, taskState, rxCmd, budgetVars, fault>>
    /\ UNCHANGED <<rxVars, monVars, waitVars, rtcVars, apiVars, obsVars, txVars, hwVars, protoVars>>

\* the load of the temperature or the read of the current, the sample and
\* its notification
StreamBuildSample(k) ==
    /\ Runnable(k) /\ pc[k] = "sample"
    /\ \E ts \in Ticks, reading \in CurrentReadings :
          LET found == ReadingFound(stream_sensor, flag_seen[k], last_temperature, reading)
          IN  /\ flag_seen' = [flag_seen EXCEPT ![k] = found.valid]
              /\ value_read' = [value_read EXCEPT ![k] = found.value]
              /\ SendSample(k, ts, SampleValue(stream_sensor, flag_seen[k],
                                              last_temperature, reading))
    /\ UNCHANGED <<last_temperature, last_humidity, temp_data_valid, evData, evStores,
                   evBus, delivered, read_failed>>
    /\ UNCHANGED <<streaming_active, stream_sensor, stream_interval_ms,
                   stream_task_handle, stream_stop_requested>>
    /\ UNCHANGED <<sendStatus, taskState, rxCmd, cmdsLeft, appLeft, fault>>
    /\ UNCHANGED <<rxVars, monVars, waitVars, rtcVars, apiVars, obsVars, txVars, hwVars>>

\* while (!stop_requested): build the sample and send it as a notification;
\* where no event callback runs beside the loop, the test and the load are one step
StreamLoop(k) ==
    /\ Runnable(k) /\ pc[k] = "loop"
    /\ IF stream_stop_requested
       THEN /\ pc' = [pc EXCEPT ![k] = "exit"]
            /\ UNCHANGED <<sendData, seq_counter, notifsLeft, flag_seen, value_read>>
       ELSE \E ts \in Ticks, reading \in CurrentReadings :
               LET found == ReadingFound(stream_sensor, FlagTested(temp_data_valid),
                                         last_temperature, reading)
               IN  /\ flag_seen' = [flag_seen EXCEPT ![k] = found.valid]
                   /\ value_read' = [value_read EXCEPT ![k] = found.value]
                   /\ SendSample(k, ts, SampleValue(stream_sensor,
                                                   FlagTested(temp_data_valid),
                                                   last_temperature, reading))
    /\ UNCHANGED <<last_temperature, last_humidity, temp_data_valid, evData, evStores,
                   evBus, delivered, read_failed>>
    /\ UNCHANGED <<streaming_active, stream_sensor, stream_interval_ms,
                   stream_task_handle, stream_stop_requested>>
    /\ UNCHANGED <<sendStatus, taskState, rxCmd, cmdsLeft, appLeft, fault>>
    /\ UNCHANGED <<rxVars, monVars, waitVars, rtcVars, apiVars, obsVars, txVars, hwVars>>

\* the status of the send is ignored; os_delay(stream_interval_ms) elapsed and
\* the sample of the pass is gone
StreamWake(k) ==
    /\ Runnable(k) /\ pc[k] = "sleep"
    /\ pc' = [pc EXCEPT ![k] = "loop"]
    /\ sendStatus' = [sendStatus EXCEPT ![k] = UART_DRV_OK]
    /\ flag_seen' = [flag_seen EXCEPT ![k] = FALSE]
    /\ value_read' = [value_read EXCEPT ![k] = 0]
    /\ UNCHANGED <<last_temperature, last_humidity, temp_data_valid, evData, evStores,
                   evBus, delivered, read_failed>>
    /\ UNCHANGED <<sendData, taskState, rxCmd, budgetVars, fault>>
    /\ UNCHANGED <<rxVars, monVars, waitVars, rtcVars, apiVars, obsVars, txVars, hwVars, protoVars>>

\* state.streaming_active = false
StreamExitClear(k) ==
    /\ Runnable(k) /\ pc[k] = "exit"
    /\ streaming_active' = FALSE
    /\ pc' = [pc EXCEPT ![k] = "exit_delete"]
    /\ UNCHANGED <<seq_counter, stream_sensor, stream_interval_ms,
                   stream_task_handle, stream_stop_requested>>
    /\ UNCHANGED <<sendData, sendStatus, taskState, rxCmd, budgetVars, fault>>
    /\ UNCHANGED <<rxVars, monVars, tempVars, waitVars, rtcVars, apiVars, obsVars, txVars, hwVars>>

\* os_task_delete(NULL)
StreamExitDelete(k) ==
    /\ Runnable(k) /\ pc[k] = "exit_delete"
    /\ taskState' = [taskState EXCEPT ![k] = "deleted"]
    /\ pc' = [pc EXCEPT ![k] = "dead"]
    /\ UNCHANGED <<sendData, sendStatus, rxCmd, budgetVars, fault>>
    /\ UNCHANGED <<rxVars, monVars, tempVars, waitVars, rtcVars, apiVars, obsVars, txVars, hwVars, protoVars>>

stream_task(k) ==
    \/ StreamLoop(k) \/ StreamWake(k) \/ StreamExitClear(k) \/ StreamExitDelete(k)
    \/ stm32_uart_send_packet_async(k)

\* ------------------------------------------------------------------------
\* The system: receive task, application task, stream tasks, transport
\* ------------------------------------------------------------------------
RxStep ==
    \/ handle_command
    \/ HandlerReturn
    \/ protocol_handler_start_stream(RX)
    \/ protocol_handler_stop_stream(RX)
    \/ stm32_uart_send_packet_async(RX)

AppStep ==
    \/ AppCall
    \/ AppReturn
    \/ stm32_uart_send_packet(APP)
    \/ stm32_uart_send_packet_async(APP)
    \/ stm32_uart_send_raw(APP)
    \/ stm32_uart_wait_tx_complete(APP)

StreamStep == \E k \in StreamIds : stream_task(k)

HwStep == DmaTransfer \/ uart_hal_event_callback

\* measurement_status_t
MEASUREMENT_IDLE == 0
MEASUREMENT_RUNNING == 1
MEASUREMENT_COMPLETE == 2

\* current_monitor_init: current_monitor_clear
InitMonitor ==
    /\ measurement_status = MEASUREMENT_IDLE
    /\ sample_count = 0
    /\ samples_captured = 0

\* the temperature cache after protocol_handler_init, no event pending
\* protocol_handler_init succeeded; no application task calls the handler
\* what a completed stm32_uart_init holds: the transport (hal_uart_init), the
\* transmit mutex, the completion semaphore, the registration of
\* uart_hal_event_callback and the receive task
InitResources == {"transport", "mutex", "semaphore", "callback", "task"}

InitHandlerReady ==
    /\ allocated = InitResources
    /\ uart_initialized = TRUE
    /\ proto_initialized = TRUE
    /\ apiCall = NoCall
    /\ apiStatus = PROTO_HANDLER_OK

InitTempIdle ==
    InitTempCache /\ evBus = FALSE /\ tx_done_seen = FALSE /\ rtc_seconds = 0 /\ InitHandlerReady

\* stm32_uart_init: rx_reset_state and cleared statistics
InitRx ==
    /\ rx_state = RX_STATE_IDLE
    /\ rx_buffer = <<>>
    /\ rx_index = 0
    /\ rx_expected_length = 0
    /\ rx_crc = 0
    /\ stats = ZeroStats
    /\ events = <<>>
    /\ lateSeen = FALSE

InitRxStream ==
    /\ InitRx
    /\ InitSys
    /\ InitMonitor
    /\ InitTempIdle
    /\ cmdsLeft = 0 /\ appLeft = 0 /\ notifsLeft = 0
    /\ rx_timeout_ms \in RxTimeouts
    /\ scen \in RxStreams
    /\ rxPos = 1

\* rx_task: one iteration of the loop over the bytes read from the transport
rx_task ==
    /\ rxPos <= Len(scen.input)
    /\ \E gap \in Gaps :
          /\ rx_process_byte(scen.input[rxPos], gap)
          /\ lateSeen' = (lateSeen \/ (rx_timeout_ms > 0 /\ gap > rx_timeout_ms))
    /\ rxPos' = rxPos + 1
    /\ scen' = scen
    /\ UNCHANGED <<monVars, tempVars, waitVars, rtcVars, apiVars, txVars, hwVars, protoVars, taskVars>>

NextRx == rx_task

SpecRx == InitRxStream /\ [][NextRx]_vars

\* the concurrent system, with the receive machine at rest: the dispatcher
\* and the stream tasks send through the codec
Init ==
    /\ InitRx
    /\ InitSys
    /\ InitMonitor
    /\ InitTempIdle
    /\ cmdsLeft = MaxCmds /\ appLeft = 0 /\ notifsLeft = MaxNotifs
    /\ rx_timeout_ms = DEFAULT_RX_TIMEOUT_MS
    /\ scen = NoScenario
    /\ rxPos = 1

Next == RxStep \/ StreamStep \/ HwStep

Spec == Init /\ [][Next]_vars

\* every step of the receive task that can be taken is eventually taken; the
\* transport and the stream tasks are free to stall
FairSpec == Spec /\ WF_vars(RxStep)

\* the same system with an application task that calls the codec directly
InitApi ==
    /\ InitRx
    /\ InitSys
    /\ InitMonitor
    /\ InitTempIdle
    /\ cmdsLeft = MaxCmds /\ appLeft = MaxAppOps /\ notifsLeft = MaxNotifs
    /\ rx_timeout_ms = DEFAULT_RX_TIMEOUT_MS
    /\ scen = NoScenario
    /\ rxPos = 1

NextApi == RxStep \/ AppStep \/ StreamStep \/ HwStep

SpecApi == InitApi /\ [][NextApi]_vars

\* ------------------------------------------------------------------------
\* The dispatcher fed by the receive machine: rx_task, packet_rx_callback,
\* handle_command and the handlers
\* ------------------------------------------------------------------------
PACKET_TYPE_CMD == 1
CMD_SET_RTC == 4
CMD_GET_STATUS == 5
CMD_CLEAR_BUFFER == 6
CMD_GET_CONFIG == 7
CMD_SET_CONFIG == 8
RESP_INVALID_CMD == 2
RESP_INVALID_PARAM == 3
PROTOCOL_HEADER_SIZE == 6

\* sizeof(cmd_set_rtc_t), sizeof(cmd_start_stream_t), sizeof(resp_get_status_t)
SizeofSetRtc == 4
SizeofStartStream == 5
SizeofGetStatus == 8

\* fields of the packed protocol_packet_t that event->data is read as
PacketType(d) == d[1]
PacketCmdId(d) == d[2]
PacketSeq(d) == d[3]
PacketLength(d) == d[5] + 256 * d[6]
PacketPayload(d) == SubSeq(d, PROTOCOL_HEADER_SIZE + 1, Len(d))

\* packed cmd_start_stream_t read from the payload
StartSensor(p) == p[1]
StartInterval(p) == p[2] + 256 * p[3] + 65536 * p[4] + 16777216 * p[5]

\* packet_rx_callback: the tests an event passes before handle_command runs
IsPacketEvent(event) == event.type = STM32_UART_EVENT_PACKET_RECEIVED
HeaderPresent(event) == event.length >= PROTOCOL_HEADER_SIZE
IsCommand_any(d) == TRUE
IsCommand(d) == PacketType(d) = PACKET_TYPE_CMD
LengthFits(event) == PacketLength(event.data) <= event.length - PROTOCOL_HEADER_SIZE

Dispatched(event) ==
    /\ IsPacketEvent(event)
    /\ HeaderPresent(event)
    /\ IsCommand(event.data)
    /\ LengthFits(event)

\* protocol_handler_send_response with a payload
ResponseWith(cmd_id, seq, status, payload) ==
    PacketBytes(PACKET_TYPE_RESP, cmd_id, seq, status, payload)

\* the cmd_id and seq a handler puts into its response
EchoId_fixed(cmd_id) == CMD_GET_STATUS
EchoId(cmd_id) == cmd_id
EchoSeq(seq) == seq

\* packed resp_get_status_t
StatusBytes_short(state, count, tick) == <<state % 256, 0>> \o U16LE(count % 65536)
StatusBytes(state, count, tick) ==
    <<state % 256, 0>> \o U16LE(count % 65536) \o U32LE(tick \div 1000)

\* current_monitor_get_status: a running measurement is checked for completion
StatusAfterQuery ==
    IF measurement_status = MEASUREMENT_RUNNING
    THEN {MEASUREMENT_RUNNING, MEASUREMENT_COMPLETE}
    ELSE {measurement_status}

\* the command the dispatcher works on, kept for the handlers that continue
CommandOf(d) ==
    [id |-> PacketCmdId(d), seq |-> PacketSeq(d),
     sensor |-> IF PacketLength(d) >= SizeofStartStream THEN StartSensor(PacketPayload(d)) ELSE 0,
     interval |-> IF PacketLength(d) >= SizeofStartStream THEN StartInterval(PacketPayload(d)) ELSE 0]

\* a handler that only answers
Answer(d, status, payload) ==
    AsyncSendCall(RX, ResponseWith(EchoId(PacketCmdId(d)), EchoSeq(PacketSeq(d)), status, payload))

\* if (cmd->length < sizeof(cmd_set_rtc_t)), if (cmd->length < sizeof(cmd_start_stream_t))
ParamTooShort_never(length, size) == FALSE
ParamTooShort(length, size) == length < size

\* default: of handle_command
DefaultStatus_ok == RESP_OK
DefaultStatus == RESP_INVALID_CMD

\* handle_command: the switch over cmd_id and the first part of each handler
handle_packet(d) ==
    /\ rxCmd' = CommandOf(d)
    /\ CASE PacketCmdId(d) = CMD_GET_STATUS ->
              \E st \in StatusAfterQuery, tick \in Ticks :
                 /\ measurement_status' = st
                 /\ Answer(d, RESP_OK, StatusBytes(st, samples_captured, tick))
                 /\ UNCHANGED <<sample_count, samples_captured>>
         [] PacketCmdId(d) = CMD_SET_RTC ->
              \* TODO: Set RTC using HAL_RTC -- the time is logged, the clock
              \* is not written
              /\ Answer(d, IF ParamTooShort(PacketLength(d), SizeofSetRtc)
                           THEN RESP_INVALID_PARAM ELSE RESP_OK, <<>>)
              /\ UNCHANGED monVars
         [] PacketCmdId(d) = CMD_START_MEASUREMENT ->
              /\ IF ParamTooShort(PacketLength(d), SizeofStartStream)
                 THEN Answer(d, RESP_INVALID_PARAM, <<>>)
                 ELSE pc' = [pc EXCEPT ![RX] = "start_check"] /\ UNCHANGED sendData
              /\ UNCHANGED monVars
         [] PacketCmdId(d) = CMD_STOP_MEASUREMENT ->
              /\ pc' = [pc EXCEPT ![RX] = "stop_check"] /\ UNCHANGED sendData
              /\ UNCHANGED monVars
         [] PacketCmdId(d) = CMD_GET_BUFFER_DATA ->
              /\ Answer(d, RESP_NO_DATA, <<>>)
              /\ UNCHANGED monVars
         [] PacketCmdId(d) = CMD_CLEAR_BUFFER ->
              \* current_monitor_clear
              /\ measurement_status' = MEASUREMENT_IDLE
              /\ sample_count' = 0
              /\ samples_captured' = 0
              /\ Answer(d, RESP_OK, <<>>)
         [] OTHER ->
              /\ Answer(d, DefaultStatus, <<>>)
              /\ UNCHANGED monVars

\* packet_rx_callback, called by notify_event with the event just raised
packet_rx_callback(event) ==
    IF Dispatched(event)
    THEN handle_packet(event.data)
    ELSE UNCHANGED <<pc, sendData, rxCmd, monVars>>

\* the gap before byte i of the stream: one byte of a "late" stream arrives
\* after the inter-byte timeout
LatePos(s) == Len(s.pre) + 5
GapBefore(s, i) ==
    IF s.kind = "late" /\ i = LatePos(s) THEN DEFAULT_RX_TIMEOUT_MS + 1 ELSE 0

\* rx_task with the dispatcher registered as callback: one byte is processed;
\* the event it raises, if any, is handled before the next byte is read
rx_task_dispatch ==
    /\ Runnable(RX) /\ pc[RX] = "idle"
    /\ rxPos <= Len(scen.input)
    /\ rx_process_byte(scen.input[rxPos], GapBefore(scen, rxPos))
    /\ lateSeen' = (lateSeen \/ GapBefore(scen, rxPos) > rx_timeout_ms)
    /\ rxPos' = rxPos + 1
    /\ scen' = scen
    /\ IF Len(events') > Len(events)
       THEN packet_rx_callback(events'[Len(events')])
       ELSE UNCHANGED <<pc, sendData, rxCmd, monVars>>
    /\ UNCHANGED <<sendStatus, taskState, budgetVars, fault>>
    /\ UNCHANGED <<tempVars, waitVars, rtcVars, apiVars, txVars, hwVars, protoVars>>

DispatchStep ==
    \/ rx_task_dispatch
    \/ HandlerReturn
    \/ protocol_handler_start_stream(RX)
    \/ protocol_handler_stop_stream(RX)
    \/ stm32_uart_send_packet_async(RX)

\* ------------------------------------------------------------------------
\* Byte streams for the dispatcher
\* ------------------------------------------------------------------------
\* a protocol packet as the peer serialises it; the declared length is free
RawPacket(type, cmd_id, seq, status, declared, payload) ==
    <<type, cmd_id, seq, status>> \o U16LE(declared) \o payload

CmdPacket(cmd_id, seq, payload) ==
    RawPacket(PACKET_TYPE_CMD, cmd_id, seq, 0, Len(payload), payload)

UNKNOWN_CMD == 238             \* 0xEE, an id command_id_t does not define
DispatchIds == {CMD_GET_BUFFER_DATA, CMD_START_MEASUREMENT, CMD_STOP_MEASUREMENT,
                CMD_SET_RTC, CMD_GET_STATUS, CMD_CLEAR_BUFFER,
                CMD_GET_CONFIG, CMD_SET_CONFIG, UNKNOWN_CMD}
DispatchSeqs == {0, 7, 255}

\* payloads: none, a cmd_set_rtc_t, a cmd_start_stream_t
RtcPayload == U32LE(1700000000)
StartPayload == <<SENSOR_TEMPERATURE>> \o U32LE(100)
ShortRtcPayload == <<1, 2, 3>>
CmdPayloads == {<<>>, ShortRtcPayload, RtcPayload, StartPayload}

\* the frame that starts a streaming session before the frame under test
StartFrame == BuildFrame(CmdPacket(CMD_START_MEASUREMENT, 7, StartPayload))
\* commands sent into a running session
SessionIds == {CMD_GET_STATUS, CMD_START_MEASUREMENT, CMD_STOP_MEASUREMENT, UNKNOWN_CMD}

SessionPayload(id) == IF id = CMD_START_MEASUREMENT THEN StartPayload ELSE <<>>

\* commands whose payload is one byte short of their parameter block
ShortParamCommands ==
    {CmdPacket(CMD_START_MEASUREMENT, 7, RtcPayload), CmdPacket(CMD_SET_RTC, 7, ShortRtcPayload)}

\* well-formed commands, alone or behind a running session
CommandStreams ==
    {Stream("command", CmdPacket(id, s, p), <<>>, <<>>, BuildFrame(CmdPacket(id, s, p))) :
        id \in DispatchIds, s \in DispatchSeqs, p \in CmdPayloads}
    \cup
    {Stream("command", CmdPacket(id, 7, SessionPayload(id)), StartFrame, <<>>,
            StartFrame \o BuildFrame(CmdPacket(id, 7, SessionPayload(id)))) :
        id \in SessionIds}
    \cup
    {Stream("command", c, StartFrame, <<>>, StartFrame \o BuildFrame(c)) : c \in ShortParamCommands}

\* frames the codec accepts that are not well-formed commands
ShortPackets == {SubSeq(CmdPacket(CMD_GET_STATUS, 7, <<>>), 1, n) : n \in 0..(PROTOCOL_HEADER_SIZE - 1)}
WrongTypePackets ==
    {RawPacket(t, id, 7, 0, 0, <<>>) :
        t \in {0, PACKET_TYPE_RESP, PACKET_TYPE_NOTIFY, 255},
        id \in {CMD_GET_STATUS, CMD_STOP_MEASUREMENT}}
OverlongPackets ==
    {RawPacket(PACKET_TYPE_CMD, id, 7, 0, n, p) :
        id \in {CMD_GET_STATUS, CMD_START_MEASUREMENT, CMD_CLEAR_BUFFER, UNKNOWN_CMD},
        n \in {1, 5, 6, 256, 65535}, p \in {<<>>, RtcPayload}}
    \ {RawPacket(PACKET_TYPE_CMD, id, 7, 0, 1, RtcPayload) : id \in DispatchIds}

\* a session is stopped by a Stop command only, whatever the packet claims
SessionProbes ==
    {RawPacket(PACKET_TYPE_NOTIFY, CMD_STOP_MEASUREMENT, 7, 0, 0, <<>>),
     RawPacket(PACKET_TYPE_CMD, CMD_STOP_MEASUREMENT, 7, 0, 1, <<>>)}

MalformedStreams ==
    {Stream("malformed", m, <<>>, <<>>, BuildFrame(m)) :
        m \in ShortPackets \cup WrongTypePackets \cup OverlongPackets}
    \cup
    {Stream("malformed", m, StartFrame, <<>>, StartFrame \o BuildFrame(m)) : m \in SessionProbes}

\* frames the codec rejects: damaged CRC, damaged end marker, oversize length
\* field, a byte after the inter-byte timeout
ProbeFrame == BuildFrame(CmdPacket(CMD_GET_STATUS, 7, <<>>))
CrcErrorStreams ==
    {Stream("crc", CmdPacket(CMD_GET_STATUS, 7, <<>>), <<>>, <<>>, FlipBit(ProbeFrame, i, k)) :
        i \in 4..(Len(ProbeFrame) - 1), k \in {0, 7}}
EndMarkerStreams ==
    {Stream("endmarker", CmdPacket(CMD_GET_STATUS, 7, <<>>), <<>>, <<>>,
            [ProbeFrame EXCEPT ![Len(ProbeFrame)] = b]) : b \in {0, STM32_PACKET_START_MARKER}}
BadLengthStreams ==
    {Stream("badlength", CmdPacket(CMD_GET_STATUS, 7, <<>>), <<>>, <<>>,
            <<STM32_PACKET_START_MARKER, l[1], l[2]>> \o SubSeq(ProbeFrame, 4, Len(ProbeFrame))) :
        l \in OversizeLengths}
LateStreams ==
    {Stream("late", CmdPacket(CMD_GET_STATUS, 7, <<>>), <<>>, <<>>, ProbeFrame)}

CodecErrorStreams == CrcErrorStreams \cup EndMarkerStreams \cup BadLengthStreams \cup LateStreams

DispatchStreams == CommandStreams \cup MalformedStreams \cup CodecErrorStreams

\* sample-store states the measurement service can have left behind
StoreStates ==
    {<<MEASUREMENT_IDLE, 0, 0>>, <<MEASUREMENT_RUNNING, 3, 3>>, <<MEASUREMENT_COMPLETE, 3, 65539>>}

InitDispatch ==
    /\ scen \in DispatchStreams
    /\ InitRx
    /\ InitSys
    /\ InitTempIdle
    /\ \E m \in IF scen.pre = <<>> THEN StoreStates ELSE {<<MEASUREMENT_RUNNING, 3, 3>>} :
          /\ measurement_status = m[1]
          /\ sample_count = m[2]
          /\ samples_captured = m[3]
    /\ cmdsLeft = 0 /\ appLeft = 0 /\ notifsLeft = MaxNotifs
    /\ rx_timeout_ms = DEFAULT_RX_TIMEOUT_MS
    /\ rxPos = 1

NextDispatch == DispatchStep \/ StreamStep \/ HwStep

SpecDispatch == InitDispatch /\ [][NextDispatch]_vars

\* every step of the receive task that can be taken is eventually taken; the
\* transport and the stream tasks are free to stall
FairDispatch == SpecDispatch /\ WF_vars(DispatchStep)

\* ------------------------------------------------------------------------
\* The send API called by an application task, beside a streaming session
\* ------------------------------------------------------------------------
UART_DRV_ERR_NOT_INITIALIZED == -1
UART_DRV_ERR_INVALID_PARAM == -3
UART_DRV_ERR_PACKET_TOO_LARGE == -6

\* one byte more than the encoder accepts
TooLongPayload == [i \in 1..(STM32_UART_MAX_PACKET_SIZE - PACKET_OVERHEAD + 1) |-> (i * 11) % 256]

\* payloads of 0, 1, 2, 255, 256 and 506 bytes: both sides of the carry into
\* the high length byte, and both ends of the range
PayloadOfLength(n) == [i \in 1..n |-> (i * 7) % 256]
SendPayloads ==
    {<<>>, <<0>>, <<STM32_PACKET_START_MARKER, STM32_PACKET_END_MARKER>>,
     PayloadOfLength(255), PayloadOfLength(256), LongPayload}

\* the payload the application sends; "uninitialized": stm32_uart_init has not
\* run, or stm32_uart_deinit has
SendStreams ==
    {Stream("send", d, <<>>, <<>>, <<>>) : d \in SendPayloads \cup {TooLongPayload}}
    \cup
    {Stream("uninitialized", d, <<>>, <<>>, <<>>) : d \in {<<>>, <<0>>, TooLongPayload}}

\* state.initialized
Initialized == scen.kind # "uninitialized"

\* if (length > STM32_UART_MAX_PACKET_SIZE - PACKET_OVERHEAD)
PayloadTooLarge_never(length) == FALSE
PayloadTooLarge(length) == length > STM32_UART_MAX_PACKET_SIZE - PACKET_OVERHEAD

\* the tests at the head of both send functions
EntryStatus(data) ==
    IF ~Initialized THEN UART_DRV_ERR_NOT_INITIALIZED
    ELSE IF PayloadTooLarge(Len(data)) THEN UART_DRV_ERR_PACKET_TOO_LARGE
    ELSE UART_DRV_OK

\* the application calls stm32_uart_send_packet or stm32_uart_send_packet_async
SendCall ==
    /\ Runnable(APP) /\ pc[APP] = "idle"
    /\ appLeft > 0
    /\ appLeft' = appLeft - 1
    /\ \E entry \in {"sy_mutex", "as_mutex"} :
          IF EntryStatus(scen.payload) # UART_DRV_OK
          THEN Return(APP, EntryStatus(scen.payload))
          ELSE /\ pc' = [pc EXCEPT ![APP] = entry]
               /\ sendData' = [sendData EXCEPT ![APP] = scen.payload]
               /\ UNCHANGED sendStatus
    /\ UNCHANGED <<taskState, rxCmd, cmdsLeft, notifsLeft, fault>>
    /\ UNCHANGED <<rxVars, monVars, tempVars, waitVars, rtcVars, apiVars, obsVars, txVars, hwVars, protoVars>>

SendStep ==
    \/ SendCall
    \/ AppReturn
    \/ stm32_uart_send_packet(APP)
    \/ stm32_uart_send_packet_async(APP)

\* sends of the application task per run
MaxSends == 2

\* the longest payload sent beside a running session
SessionPayloadLen == 2

\* the codec at rest; a streaming session may have been started before
InitSend ==
    /\ InitRx
    /\ InitMonitor
    /\ InitTempIdle
    /\ scen \in SendStreams
    /\ rx_timeout_ms = DEFAULT_RX_TIMEOUT_MS
    /\ rxPos = 1
    /\ tx_mutex = NULL
    /\ tx_complete_sem = SemInitialCount
    /\ tx_in_progress = FALSE
    /\ tx_buffer = <<>>
    /\ tx_pending_length = 0
    /\ hwBusy = FALSE /\ hwPos = 0 /\ hwLen = 0
    /\ wire = <<>> /\ started = <<>>
    /\ seq_counter = 0
    /\ stream_stop_requested = FALSE
    /\ streaming_active \in (IF Initialized /\ Len(scen.payload) <= SessionPayloadLen THEN BOOLEAN ELSE {FALSE})
    /\ stream_sensor = (IF streaming_active THEN SENSOR_TEMPERATURE ELSE 0)
    /\ stream_interval_ms = (IF streaming_active THEN 100 ELSE 0)
    /\ stream_task_handle = (IF streaming_active THEN 1 ELSE NULL)
    /\ taskState = [k \in StreamIds |-> IF streaming_active /\ k = 1 THEN "alive" ELSE "none"]
    /\ pc = [t \in Tasks |-> IF t \in StreamIds
                             THEN (IF streaming_active /\ t = 1 THEN "loop" ELSE "none")
                             ELSE "idle"]
    /\ sendData = [t \in Tasks |-> <<>>]
    /\ sendStatus = [t \in Tasks |-> UART_DRV_OK]
    /\ rxCmd = NoCommand
    /\ fault = FALSE
    /\ cmdsLeft = 0 /\ appLeft = MaxSends /\ notifsLeft = MaxNotifs

\* the stream task of a session nobody stops
StreamSending ==
    \E k \in StreamIds : StreamLoop(k) \/ StreamWake(k) \/ stm32_uart_send_packet_async(k)

NextSend == SendStep \/ StreamSending \/ HwStep

SpecSend == InitSend /\ [][NextSend]_vars

\* ------------------------------------------------------------------------
\* The temperature cache: the event callback beside a running session
\* ------------------------------------------------------------------------
StreamedSensors == {SENSOR_TEMPERATURE, SENSOR_CURRENT}

\* the state StartActive leaves: the session streams, the receive task is
\* about to send the response to StartMeasurement; no temperature event was
\* handled yet
InitTemp ==
    /\ InitRx
    /\ InitMonitor
    /\ InitTempCache
    /\ evBus = TRUE
    /\ tx_done_seen = FALSE
    /\ rtc_seconds = 0
    /\ InitHandlerReady
    /\ scen = NoScenario
    /\ rx_timeout_ms = DEFAULT_RX_TIMEOUT_MS
    /\ rxPos = 1
    /\ tx_mutex = NULL
    /\ tx_complete_sem = SemInitialCount
    /\ tx_in_progress = FALSE
    /\ tx_buffer = <<>>
    /\ tx_pending_length = 0
    /\ hwBusy = FALSE /\ hwPos = 0 /\ hwLen = 0
    /\ wire = <<>> /\ started = <<>>
    /\ seq_counter = 0
    /\ stream_stop_requested = FALSE
    /\ streaming_active = TRUE
    /\ stream_sensor \in StreamedSensors
    /\ stream_interval_ms = 100
    /\ stream_task_handle = 1
    /\ taskState = [k \in StreamIds |-> IF k = 1 THEN "alive" ELSE "none"]
    /\ pc = [t \in Tasks |-> IF t \in StreamIds THEN (IF t = 1 THEN "loop" ELSE "none")
                             ELSE IF t = RX THEN "as_mutex" ELSE "idle"]
    /\ \E c \in Commands :
          /\ c.id = CMD_START_MEASUREMENT
          /\ rxCmd = c
          /\ sendData = [t \in Tasks |-> IF t = RX
                                          THEN ResponsePacket(c.id, c.seq, StartResponse(TRUE))
                                          ELSE <<>>]
    /\ sendStatus = [t \in Tasks |-> UART_DRV_OK]
    /\ fault = FALSE
    /\ cmdsLeft = 0 /\ appLeft = 0 /\ notifsLeft = MaxNotifs + 1

\* the receive task sends the response
ResponseStep == stm32_uart_send_packet_async(RX)

\* the stream task of the session, the test of the flag apart from the load
StreamSampling ==
    \E k \in StreamIds :
        \/ StreamTestFlag(k) \/ StreamBuildSample(k) \/ StreamWake(k)
        \/ stm32_uart_send_packet_async(k)

NextTemp == temperature_event_handler \/ ResponseStep \/ StreamSampling \/ HwStep

SpecTemp == InitTemp /\ [][NextTemp]_vars

\* ------------------------------------------------------------------------
\* stm32_uart_flush_rx, called by an application task beside the receive task
\* ------------------------------------------------------------------------
\* hal_uart_flush_rx: the received bytes the transport holds and the receive
\* task has not read yet are discarded; how many have arrived is open
FlushTargets(pos, input) == pos..(Len(input) + 1)

\* rx_reset_state, then hal_uart_flush_rx
stm32_uart_flush_rx ==
    /\ Runnable(APP) /\ pc[APP] = "idle"
    /\ appLeft > 0
    /\ appLeft' = appLeft - 1
    /\ rx_state' = RX_STATE_IDLE
    /\ rx_index' = 0
    /\ rx_expected_length' = 0
    /\ rx_crc' = 0
    /\ \E p \in FlushTargets(rxPos, scen.input) : rxPos' = p
    /\ UNCHANGED <<rx_buffer, rx_timeout_ms, scen, lateSeen>>
    /\ UNCHANGED <<pc, sendData, sendStatus, taskState, rxCmd, cmdsLeft, notifsLeft, fault>>
    /\ UNCHANGED <<monVars, tempVars, waitVars, rtcVars, apiVars, obsVars, txVars, hwVars, protoVars>>

\* frames of every short payload arrive while the application may flush
FlushStreams == {s \in RoundTripStreams : Len(s.payload) <= MaxLen}

InitFlush ==
    /\ InitRx
    /\ InitSys
    /\ InitMonitor
    /\ InitTempIdle
    /\ cmdsLeft = 0 /\ appLeft = MaxAppOps /\ notifsLeft = 0
    /\ rx_timeout_ms = DEFAULT_RX_TIMEOUT_MS
    /\ scen \in FlushStreams
    /\ rxPos = 1

NextFlush == rx_task \/ stm32_uart_flush_rx

SpecFlush == InitFlush /\ [][NextFlush]_vars

\* ------------------------------------------------------------------------
\* Initialization, and an application task calling the protocol handler
\* ------------------------------------------------------------------------
\* stm32_uart_init: the resource whose creation fails, if any
InitFailures == {"transport", "mutex", "semaphore", "task"}

\* what stm32_uart_init has acquired when the creation of a resource fails
AcquiredBefore(failure) ==
    CASE failure = "transport" -> {}
      [] failure = "mutex" -> {"transport"}
      [] failure = "semaphore" -> {"transport", "mutex"}
      [] failure = "task" -> {"transport", "mutex", "semaphore", "callback"}
      [] OTHER -> InitResources

\* hal_uart_deinit on an error path: the transport is released; whether the
\* registration of the callback goes with it is the transport's business
HalDeinitReleases == {{"transport"}, {"transport", "callback"}}

\* what the error path of the failing step gives back: nothing when
\* hal_uart_init failed, hal_uart_deinit for the mutex, os_mutex_delete and
\* hal_uart_deinit for the semaphore and for the receive task
ReleasedOn(failure, hal) ==
    CASE failure = "transport" -> {}
      [] failure = "mutex" -> hal
      [] failure = "semaphore" -> {"mutex"} \cup hal
      [] failure = "task" -> {"mutex"} \cup hal
      [] OTHER -> {}

\* state.initialized = true is the last statement of stm32_uart_init and of
\* protocol_handler_init; every failure returns before it
InitCompletes_anyway(failure) == TRUE
InitCompletes(failure) == failure = "none"

\* the status of stm32_uart_init is not UART_DRV_OK: protocol_handler_init
\* returns PROTO_HANDLER_ERR_NOT_INIT
InitStatus(failure) ==
    IF InitCompletes(failure) THEN PROTO_HANDLER_OK ELSE PROTO_HANDLER_ERR_NOT_INIT

\* protocol_handler_init, with stm32_uart_init inside it
protocol_handler_init ==
    /\ Runnable(APP) /\ pc[APP] = "idle"
    /\ appLeft > 0
    /\ appLeft' = appLeft - 1
    /\ IF proto_initialized
       THEN /\ apiCall' = [NoCall EXCEPT !.op = "init"]
            /\ apiStatus' = PROTO_HANDLER_ERR_ALREADY_INIT
            /\ UNCHANGED <<allocated, uart_initialized, proto_initialized, tx_complete_sem,
                           temp_data_valid>>
       ELSE \E failure \in InitFailures \cup {"none"} :
               /\ apiCall' = [NoCall EXCEPT !.op = "init", !.failure = failure]
               /\ \E hal \in HalDeinitReleases :
                     allocated' = (allocated \cup AcquiredBefore(failure))
                                     \ ReleasedOn(failure, hal)
               /\ uart_initialized' = InitCompletes(failure)
               /\ proto_initialized' = InitCompletes(failure)
               /\ apiStatus' = InitStatus(failure)
               \* the semaphore is created and given before the receive task
               /\ tx_complete_sem' = IF failure \in {"none", "task"}
                                     THEN SemInitialCount ELSE tx_complete_sem
               /\ temp_data_valid' = IF InitCompletes(failure) THEN FALSE ELSE temp_data_valid
    /\ UNCHANGED <<tx_mutex, tx_in_progress, tx_buffer, tx_pending_length>>
    /\ UNCHANGED <<last_temperature, last_humidity, evData, evStores, evBus, delivered, read_failed,
                   flag_seen, value_read>>
    /\ UNCHANGED <<pc, sendData, sendStatus, taskState, rxCmd, cmdsLeft, notifsLeft, fault>>
    /\ UNCHANGED <<rxVars, monVars, waitVars, rtcVars, obsVars, hwVars, protoVars>>

\* protocol_handler_send_response and protocol_handler_send_notification
\* called by the application
ApiPackets ==
    [response |-> ResponsePacket(CMD_GET_STATUS, 7, RESP_OK)]

AppSendResponse ==
    /\ Runnable(APP) /\ pc[APP] = "idle"
    /\ appLeft > 0
    /\ appLeft' = appLeft - 1
    /\ apiCall' = [NoCall EXCEPT !.op = "response"]
    /\ IF HandlerReady(proto_initialized)
       THEN /\ AsyncSendCall(APP, ApiPackets.response)
            /\ UNCHANGED apiStatus
       ELSE /\ apiStatus' = PROTO_HANDLER_ERR_NOT_INIT
            /\ UNCHANGED <<pc, sendData>>
    /\ UNCHANGED <<allocated, uart_initialized, proto_initialized>>
    /\ UNCHANGED <<sendStatus, taskState, rxCmd, cmdsLeft, notifsLeft, fault>>
    /\ UNCHANGED <<rxVars, monVars, tempVars, waitVars, rtcVars, obsVars, txVars, hwVars, protoVars>>

AppSendNotification ==
    /\ Runnable(APP) /\ pc[APP] = "idle"
    /\ appLeft > 0
    /\ appLeft' = appLeft - 1
    /\ apiCall' = [NoCall EXCEPT !.op = "notification"]
    /\ IF HandlerReady(proto_initialized)
       THEN /\ AsyncSendCall(APP, PacketBytes(PACKET_TYPE_NOTIFY, CMD_GET_STATUS,
                                             seq_counter, RESP_OK, <<>>))
            /\ seq_counter' = (seq_counter + 1) % 256
            /\ UNCHANGED apiStatus
       ELSE /\ apiStatus' = PROTO_HANDLER_ERR_NOT_INIT
            /\ UNCHANGED <<pc, sendData, seq_counter>>
    /\ UNCHANGED <<streaming_active, stream_sensor, stream_interval_ms, stream_task_handle,
                   stream_stop_requested>>
    /\ UNCHANGED <<allocated, uart_initialized, proto_initialized>>
    /\ UNCHANGED <<sendStatus, taskState, rxCmd, cmdsLeft, notifsLeft, fault>>
    /\ UNCHANGED <<rxVars, monVars, tempVars, waitVars, rtcVars, obsVars, txVars, hwVars>>

\* the application calls protocol_handler_start_stream
AppStartStream ==
    /\ Runnable(APP) /\ pc[APP] = "idle"
    /\ appLeft > 0
    /\ appLeft' = appLeft - 1
    /\ \E sn \in Sensors, iv \in Intervals :
          apiCall' = [NoCall EXCEPT !.op = "start", !.sensor = sn, !.interval = iv]
    /\ pc' = [pc EXCEPT ![APP] = "start_check"]
    /\ UNCHANGED <<allocated, uart_initialized, proto_initialized, apiStatus>>
    /\ UNCHANGED <<sendData, sendStatus, taskState, rxCmd, cmdsLeft, notifsLeft, fault>>
    /\ UNCHANGED <<rxVars, monVars, tempVars, waitVars, rtcVars, obsVars, txVars, hwVars, protoVars>>

\* the call returned: a send that failed is reported as
\* PROTO_HANDLER_ERR_TX_FAILED, start_stream returned its status already
ApiReturn ==
    /\ Runnable(APP) /\ pc[APP] = "returned"
    /\ pc' = [pc EXCEPT ![APP] = "idle"]
    /\ apiStatus' = IF apiCall.op \in {"response", "notification"}
                    THEN (IF sendStatus[APP] = UART_DRV_OK
                          THEN PROTO_HANDLER_OK ELSE PROTO_HANDLER_ERR_TX_FAILED)
                    ELSE apiStatus
    /\ sendStatus' = [sendStatus EXCEPT ![APP] = UART_DRV_OK]
    /\ UNCHANGED <<allocated, uart_initialized, proto_initialized, apiCall>>
    /\ UNCHANGED <<sendData, taskState, rxCmd, budgetVars, fault>>
    /\ UNCHANGED <<rxVars, monVars, tempVars, waitVars, rtcVars, obsVars, txVars, hwVars, protoVars>>

ApiStep ==
    \/ protocol_handler_init
    \/ AppSendResponse
    \/ AppSendNotification
    \/ AppStartStream
    \/ ApiReturn
    \/ protocol_handler_start_stream(APP)
    \/ protocol_handler_stop_stream(APP)
    \/ stm32_uart_send_packet_async(APP)

\* before protocol_handler_init: static state, no kernel object exists
InitBoot ==
    /\ InitRx
    /\ InitMonitor
    /\ InitTempCache
    /\ evBus = FALSE
    /\ tx_done_seen = FALSE
    /\ rtc_seconds = 0
    /\ allocated = {}
    /\ uart_initialized = FALSE
    /\ proto_initialized = FALSE
    /\ apiCall = NoCall
    /\ apiStatus = PROTO_HANDLER_OK
    /\ scen = NoScenario
    /\ rx_timeout_ms = DEFAULT_RX_TIMEOUT_MS
    /\ rxPos = 1
    /\ tx_mutex = NULL
    /\ tx_complete_sem = 0
    /\ tx_in_progress = FALSE
    /\ tx_buffer = <<>>
    /\ tx_pending_length = 0
    /\ hwBusy = FALSE /\ hwPos = 0 /\ hwLen = 0
    /\ wire = <<>> /\ started = <<>>
    /\ seq_counter = 0
    /\ streaming_active = FALSE
    /\ stream_sensor = 0
    /\ stream_interval_ms = 0
    /\ stream_task_handle = NULL
    /\ stream_stop_requested = FALSE
    /\ pc = [t \in Tasks |-> IF t \in StreamIds THEN "none" ELSE "idle"]
    /\ sendData = [t \in Tasks |-> <<>>]
    /\ sendStatus = [t \in Tasks |-> UART_DRV_OK]
    /\ taskState = [k \in StreamIds |-> "none"]
    /\ rxCmd = NoCommand
    /\ fault = FALSE
    /\ cmdsLeft = 0 /\ appLeft = MaxAppOps + 2 /\ notifsLeft = MaxNotifs + 1

NextInit == ApiStep \/ StreamStep \/ HwStep

SpecInit == InitBoot /\ [][NextInit]_vars

\* ------------------------------------------------------------------------
\* Properties of the receive state machine
\* ------------------------------------------------------------------------
RxDone == rxPos > Len(scen.input)
PacketEvent(p) == Event(STM32_UART_EVENT_PACKET_RECEIVED, p, Len(p))

\* C3: round trip. A frame built by the encoder and fed byte by byte into an
\* Idle receive machine without inter-byte timeout yields, once its last byte
\* is consumed, exactly one packet-received event carrying the payload and its
\* length, and no other event (none before the last byte either).
C3_RoundTrip ==
    (scen.kind = "roundtrip" /\ ~lateSeen) =>
        /\ RxDone => /\ events = <<PacketEvent(scen.payload)>>
                     /\ rx_state = RX_STATE_IDLE
        /\ ~RxDone => events = <<>>

C3_Witness ==
    /\ scen.kind = "roundtrip" /\ ~lateSeen /\ RxDone
    /\ Len(scen.payload) = STM32_UART_MAX_PACKET_SIZE - PACKET_OVERHEAD
    /\ Len(events) = 1

\* C4 as stated: garbage, one valid frame, garbage yields exactly one
\* packet-received event with the frame's payload and no other event.
C4_Original ==
    (scen.kind = "resync" /\ ~lateSeen /\ RxDone) =>
        events = <<PacketEvent(scen.payload)>>

HasStart(g) == \E i \in 1..Len(g) : g[i] = STM32_PACKET_START_MARKER

\* C4 amended: when neither the garbage before nor the garbage after the frame
\* contains the start marker 0xAA (and no inter-byte timeout occurs), the
\* stream yields exactly one packet-received event with the frame's payload,
\* no other event, and leaves the machine Idle.
C4_Resync ==
    (scen.kind = "resync" /\ ~lateSeen /\ RxDone
        /\ ~HasStart(scen.pre) /\ ~HasStart(scen.post)) =>
        /\ events = <<PacketEvent(scen.payload)>>
        /\ rx_state = RX_STATE_IDLE

C4_Witness ==
    /\ scen.kind = "resync" /\ ~lateSeen /\ RxDone
    /\ Len(scen.pre) = MaxGarbage /\ Len(scen.post) > 0
    /\ ~HasStart(scen.pre) /\ ~HasStart(scen.post)
    /\ Len(events) = 1

\* C5: CRC rejection. A valid frame with one bit inverted in a payload byte or
\* in one of the two CRC bytes yields exactly one CRC-error event and no
\* packet-received event.
C5_CrcRejection ==
    (scen.kind = "bitflip" /\ ~lateSeen) =>
        /\ stats.packets_received = 0
        /\ RxDone => /\ events = <<Event(STM32_UART_EVENT_CRC_ERROR, <<>>, 0)>>
                     /\ stats.crc_errors = 1

C5_Witness ==
    /\ scen.kind = "bitflip" /\ ~lateSeen /\ RxDone
    /\ Len(scen.payload) = MaxLen
    /\ stats.crc_errors = 1

\* C6: length bound. After a length field above 506 the machine is Idle
\* right after the LengthHigh byte with one framing error counted; the bytes
\* that follow are not stored, and the next start marker begins a new frame
\* which is received.
C6_LengthBound ==
    (scen.kind = "oversize" /\ ~lateSeen) =>
        /\ rxPos >= 4 => stats.framing_errors = 1
        /\ (rxPos >= 4 /\ rxPos <= Len(scen.pre) + Len(scen.post) + 1) =>
               /\ rx_state = RX_STATE_IDLE
               /\ rx_index = 0
               /\ rx_buffer = <<>>
        /\ rxPos = Len(scen.pre) + Len(scen.post) + 2 => rx_state = RX_STATE_LENGTH_LOW
        /\ RxDone => events = <<PacketEvent(scen.payload)>>

C6_Witness ==
    /\ scen.kind = "oversize" /\ ~lateSeen /\ RxDone
    /\ Len(scen.post) > 0
    /\ stats.framing_errors = 1
    /\ stats.packets_received = 1

\* ------------------------------------------------------------------------
\* Properties of the transmit path and of the stream session
\* ------------------------------------------------------------------------
\* C1: while a hardware asynchronous write is outstanding no sender is past
\* its wait for the previous transmission: a second send is still blocked (or
\* has returned a timeout) until the completion callback has run.
C1_SingleOutstanding ==
    \A t \in Tasks : pc[t] \in {"as_build", "as_start"} => ~hwBusy

\* C2: the bytes that reach the transport are the accepted frames one after
\* the other: whatever is on the wire is a prefix of frame A followed by
\* frame B, never a mixture of the two.
C2_FramesIntact == IsPrefix(wire, Concat(started))

\* protocol_handler_stop_stream has returned to its caller
StopReturned ==
    \/ rxCmd.id = CMD_STOP_MEASUREMENT /\ pc[RX] \in AsyncSendPcs \cup {"returned"}
    \/ rxCmd.id = CMD_START_MEASUREMENT /\ pc[RX] = "start_store"

NoStreamTask == \A k \in StreamIds : taskState[k] # "alive"

\* C7: once protocol_handler_stop_stream has returned the session is idle
\* (active flag false, handle released), and as long as the session stays idle
\* outside a start or a stop no stream task exists that could submit a
\* notification; this covers the stop whose bounded wait expired.
C7_StopLeavesIdle ==
    /\ StopReturned => ~streaming_active /\ stream_task_handle = NULL
    /\ (~streaming_active /\ pc[RX] \notin {"stop_wait", "stop_delete", "start_active"})
          => NoStreamTask /\ stream_task_handle = NULL

\* the stop returned after its wait expired: the task was deleted inside a send
C7_Witness ==
    /\ rxCmd.id = CMD_STOP_MEASUREMENT /\ pc[RX] = "returned"
    /\ \E k \in StreamIds : taskState[k] = "deleted" /\ tx_mutex = k

\* C8: in every reachable state at most one stream task exists.
C8_AtMostOneTask == Cardinality({k \in StreamIds : taskState[k] = "alive"}) <= 1

\* a start issued while a session was running: the old task is gone, the new runs
C8_Witness ==
    /\ rxCmd.id = CMD_START_MEASUREMENT
    /\ taskState[1] = "deleted" /\ taskState[2] = "alive"

\* C9: a stream task is never deleted while it is inside a send: no deleted
\* task holds the transmit mutex.
C9_NoKillInsideSend == \A k \in StreamIds : taskState[k] = "deleted" => tx_mutex # k

\* the receive task is inside start_stream, stop_stream or a send
InCall == pc[RX] \notin {"idle", "returned"}

C11_DispatchNeverWaits ==
    /\ ~(pc[RX] = "stop_delete" /\ streaming_active)
    /\ ~(pc[RX] = "as_sem" /\ tx_complete_sem = 0)

\* ------------------------------------------------------------------------
\* Properties of the dispatcher
\* ------------------------------------------------------------------------
\* the packet whose frame the receive task completed last
StartCommandPacket == CmdPacket(CMD_START_MEASUREMENT, 7, StartPayload)
CausingPacket ==
    IF scen.pre # <<>> /\ rxPos = Len(scen.pre) + 1 THEN StartCommandPacket ELSE scen.payload

\* the receive task is inside the send of a response
Responding == pc[RX] \in AsyncSendPcs

\* C12: every Response the dispatcher hands to the codec has type 0x02 and
\* carries the cmd_id and the seq of the Command that caused it, whether the
\* command id is handled or unknown and whatever the seq is.
C12_ResponseEchoes ==
    Responding =>
        /\ Len(sendData[RX]) >= PROTOCOL_HEADER_SIZE
        /\ PacketType(sendData[RX]) = PACKET_TYPE_RESP
        /\ PacketCmdId(sendData[RX]) = PacketCmdId(CausingPacket)
        /\ PacketSeq(sendData[RX]) = PacketSeq(CausingPacket)

\* reached: the response to an unknown command with seq 255 is being sent
C12_Witness ==
    /\ Responding
    /\ PacketCmdId(scen.payload) = UNKNOWN_CMD
    /\ PacketSeq(scen.payload) = 255
    /\ PacketCmdId(sendData[RX]) = UNKNOWN_CMD
    /\ PacketSeq(sendData[RX]) = 255

\* the frame under test is complete: its packet is the one being handled
TestFrameDone == rxPos = Len(scen.input) + 1
CompletesTestFrame == rxPos = Len(scen.input) /\ rxPos' = Len(scen.input) + 1

\* the dispatcher hands at most one packet to the codec for the frame under
\* test and then returns to the receive loop for good
AtMostOneResponse ==
    /\ (TestFrameDone /\ Responding) =>
          \/ Responding' /\ sendData'[RX] = sendData[RX]
          \/ pc'[RX] = "returned"
    /\ (TestFrameDone /\ pc[RX] = "returned") => pc'[RX] \in {"returned", "idle"}
    /\ (TestFrameDone /\ pc[RX] = "idle") => pc'[RX] = "idle"

\* the stream holds a GetStatus command with no payload
GetStatusStream ==
    /\ scen.kind = "command"
    /\ PacketCmdId(scen.payload) = CMD_GET_STATUS
    /\ PacketLength(scen.payload) = 0
    /\ Len(scen.payload) = PROTOCOL_HEADER_SIZE

\* the response to GetStatus: header, then state, error code 0, the low 16
\* bits of the sample counter, the uptime in seconds
IsStatusResponse(r, seq, state, count) ==
    /\ Len(r) = PROTOCOL_HEADER_SIZE + SizeofGetStatus
    /\ SubSeq(r, 1, 4) = <<PACKET_TYPE_RESP, CMD_GET_STATUS, seq, RESP_OK>>
    /\ PacketLength(r) = SizeofGetStatus
    /\ r[7] = state
    /\ r[8] = 0
    /\ r[9] + 256 * r[10] = count % 65536
    /\ \E tick \in Ticks : SubSeq(r, 11, 14) = U32LE(tick \div 1000)

\* C13: a GetStatus Command (type 0x01, cmd_id 0x05, seq s, status 0, length
\* 0) makes the dispatcher emit exactly one Response (type 0x02, cmd_id 0x05,
\* seq s, status 0x00) with an 8-byte payload of state, error code, buffer
\* count and uptime, for every seq s.
C13_GetStatus ==
    [][GetStatusStream =>
          /\ CompletesTestFrame =>
                /\ pc'[RX] = "as_mutex"
                /\ IsStatusResponse(sendData'[RX], PacketSeq(scen.payload),
                                    measurement_status', samples_captured)
          /\ AtMostOneResponse]_vars

\* reached: the status response to seq 255 is on its way to the transport,
\* the sample counter being wider than the 16-bit field
C13_Witness ==
    /\ GetStatusStream /\ TestFrameDone
    /\ PacketSeq(scen.payload) = 255
    /\ samples_captured > 65535
    /\ pc[RX] = "as_start"
    /\ Len(sendData[RX]) = PROTOCOL_HEADER_SIZE + SizeofGetStatus

\* the stream holds a command whose id is none of the six handled ones
UnhandledStream ==
    /\ scen.kind = "command"
    /\ PacketCmdId(scen.payload) \in {UNKNOWN_CMD, CMD_GET_CONFIG, CMD_SET_CONFIG}

\* a step of the receive task while it handles the frame under test
DispatcherStep == CompletesTestFrame \/ (TestFrameDone /\ pc'[RX] # pc[RX])

\* C14: a Command whose cmd_id is not one of the six handled ids (0xEE, and
\* the defined but unhandled GetConfig 0x07 and SetConfig 0x08) yields exactly
\* one Response with status 0x02 (INVALID_CMD) and an empty payload, and the
\* dispatcher changes neither the streaming session nor the sample store.
C14_UnknownCommand ==
    [][UnhandledStream =>
          /\ CompletesTestFrame =>
                /\ pc'[RX] = "as_mutex"
                /\ sendData'[RX] = <<PACKET_TYPE_RESP, PacketCmdId(scen.payload),
                                     PacketSeq(scen.payload), RESP_INVALID_CMD, 0, 0>>
          /\ AtMostOneResponse
          /\ DispatcherStep => UNCHANGED <<protoVars, monVars>>]_vars

\* reached: inside a running session the dispatcher has answered command 0xEE
\* and the session and a non-empty sample store are as they were
C14_Witness ==
    /\ UnhandledStream /\ TestFrameDone
    /\ PacketCmdId(scen.payload) = UNKNOWN_CMD
    /\ scen.pre = StartFrame
    /\ pc[RX] = "returned"
    /\ streaming_active
    /\ sample_count = 3

\* the stream ends with a frame the codec accepts but whose content is no
\* well-formed command: shorter than the header, not of type Command, or
\* declaring more payload than the frame holds
MalformedStream ==
    /\ scen.kind = "malformed"
    /\ \/ Len(scen.payload) < PROTOCOL_HEADER_SIZE
       \/ PacketType(scen.payload) # PACKET_TYPE_CMD
       \/ PacketLength(scen.payload) > Len(scen.payload) - PROTOCOL_HEADER_SIZE

\* C15: a received frame shorter than the 6-byte header, or of a type other
\* than Command, or declaring more payload than is present behind the header,
\* is dropped by the dispatcher: no handler runs and nothing is handed to the
\* transmit path for it.
C15_MalformedDropped ==
    [][MalformedStream =>
          /\ CompletesTestFrame =>
                /\ events' = Append(events, PacketEvent(scen.payload))
                /\ pc'[RX] = "idle"
                /\ UNCHANGED <<sendData, rxCmd, monVars, txVars, hwVars, protoVars>>
          /\ TestFrameDone => (pc[RX] = "idle" /\ pc'[RX] = "idle")]_vars

\* reached: inside a running session a Stop command declaring one payload byte
\* it does not carry was received and the session goes on
C15_Witness ==
    /\ MalformedStream /\ TestFrameDone
    /\ scen.pre = StartFrame
    /\ PacketType(scen.payload) = PACKET_TYPE_CMD
    /\ PacketCmdId(scen.payload) = CMD_STOP_MEASUREMENT
    /\ events # <<>> /\ events[Len(events)] = PacketEvent(scen.payload)
    /\ streaming_active

\* the stream is a command frame the codec must reject: a CRC error, a bad
\* end marker, an oversize length field, or a byte after the timeout
CodecErrorStream == scen.kind \in {"crc", "endmarker", "badlength", "late"}

ErrorEvents ==
    {STM32_UART_EVENT_CRC_ERROR, STM32_UART_EVENT_RX_ERROR, STM32_UART_EVENT_TIMEOUT}

ErrorCount(s) == s.crc_errors + s.framing_errors + s.timeout_errors

\* C16: a CRC error, a framing error (bad length or bad end marker) or an
\* inter-byte timeout in the receive machine never causes a packet to be
\* transmitted: nothing is handed to the transmit path, no handler runs and
\* protocol state stays as it is; the effects are the event to the callback,
\* the statistics counter and the reset of the receive machine.
C16_ErrorsStayLocal ==
    [][CodecErrorStream =>
          /\ UNCHANGED <<txVars, hwVars, protoVars, monVars, taskVars>>
          /\ stats'.packets_received = 0 /\ stats'.packets_sent = 0
          /\ events' # events =>
                /\ Len(events') = Len(events) + 1
                /\ events'[Len(events')].type \in ErrorEvents
                /\ ErrorCount(stats') = ErrorCount(stats) + 1
          /\ ErrorCount(stats') # ErrorCount(stats) =>
                /\ ErrorCount(stats') = ErrorCount(stats) + 1
                /\ rx_state' \in {RX_STATE_IDLE, RX_STATE_LENGTH_LOW}
                /\ rx_state' = RX_STATE_LENGTH_LOW =>
                      scen.input[rxPos] = STM32_PACKET_START_MARKER]_vars

\* reached: a GetStatus frame with a damaged CRC was consumed to its end,
\* counted, and nothing went to the transport
C16_Witness ==
    /\ scen.kind = "crc" /\ RxDone
    /\ stats.crc_errors = 1
    /\ Len(events) = 1 /\ events[1].type = STM32_UART_EVENT_CRC_ERROR
    /\ rx_state = RX_STATE_IDLE
    /\ pc[RX] = "idle" /\ wire = <<>> /\ started = <<>>

\* ------------------------------------------------------------------------
\* Properties of the receive state machine: timeout and empty frames
\* ------------------------------------------------------------------------
TimeoutEvent == Event(STM32_UART_EVENT_TIMEOUT, <<>>, 0)

\* the receive task processed the next byte of the stream after the given gap
ProcessedAfter(gap) ==
    /\ rxPos <= Len(scen.input)
    /\ rxPos' = rxPos + 1
    /\ rx_process_byte(scen.input[rxPos], gap)

\* C17: with a non-zero timeout, a byte that arrives while the machine is not
\* Idle and later than the timeout after its predecessor causes exactly one
\* timeout event and the reset to Idle before the byte is interpreted (0xAA
\* starts a new frame, any other byte is discarded); no byte arriving in
\* Idle, and no byte arriving in time, causes a timeout event.
C17_InterByteTimeout ==
    [][\A gap \in Gaps :
          ProcessedAfter(gap) =>
             IF rx_timeout_ms > 0 /\ gap > rx_timeout_ms /\ rx_state # RX_STATE_IDLE
             THEN /\ events' = Append(events, TimeoutEvent)
                  /\ stats' = [stats EXCEPT !.timeout_errors = @ + 1]
                  /\ rx_index' = 0
                  /\ rx_state' = IF scen.input[rxPos] = STM32_PACKET_START_MARKER
                                 THEN RX_STATE_LENGTH_LOW ELSE RX_STATE_IDLE
             ELSE /\ stats'.timeout_errors = stats.timeout_errors
                  /\ \A i \in (Len(events) + 1)..Len(events') :
                        events'[i].type # STM32_UART_EVENT_TIMEOUT]_vars

\* reached: the second of two start markers came late; one timeout event was
\* raised and the late marker started a new frame
C17_Witness ==
    /\ rxPos = 3
    /\ scen.input[1] = STM32_PACKET_START_MARKER
    /\ scen.input[2] = STM32_PACKET_START_MARKER
    /\ events = <<TimeoutEvent>>
    /\ stats.timeout_errors = 1
    /\ rx_state = RX_STATE_LENGTH_LOW

\* a frame around an empty payload, fed without inter-byte timeout
EmptyFrameFed ==
    /\ scen.kind = "roundtrip" /\ scen.payload = <<>>
    /\ ~lateSeen

\* C18: a frame whose LENGTH field is zero never enters the Data state: from
\* LengthHigh the machine goes directly to the CRC state; a well-formed frame
\* with empty payload decodes to exactly one packet-received event of length 0.
C18_EmptyPayload ==
    [][/\ rx_state' = RX_STATE_DATA => rx_expected_length' > 0
       /\ (rx_state = RX_STATE_LENGTH_HIGH
              /\ rx_state' \notin {RX_STATE_IDLE, RX_STATE_LENGTH_LOW, RX_STATE_LENGTH_HIGH}) =>
             rx_state' = IF rx_expected_length' = 0 THEN RX_STATE_CRC_LOW ELSE RX_STATE_DATA
       /\ (EmptyFrameFed' /\ rxPos' > Len(scen.input)) =>
             /\ events' = <<PacketEvent(<<>>)>>
             /\ events'[1].length = 0
             /\ stats'.packets_received = 1]_vars

\* reached: the six bytes of an empty frame were fed in time and decoded
C18_Witness ==
    /\ EmptyFrameFed /\ RxDone
    /\ Len(scen.input) = PACKET_OVERHEAD
    /\ events = <<PacketEvent(<<>>)>>
    /\ rx_state = RX_STATE_IDLE

\* ------------------------------------------------------------------------
\* Properties of the send API
\* ------------------------------------------------------------------------
\* the wire layout of a payload: 0xAA, length low then high, the payload, the
\* CRC16 of the payload bytes alone low then high, 0x55
HasLayout(f, data) ==
    /\ Len(f) = Len(data) + PACKET_OVERHEAD
    /\ f[1] = STM32_PACKET_START_MARKER
    /\ f[2] = Len(data) % 256
    /\ f[3] = Len(data) \div 256
    /\ SubSeq(f, 4, Len(data) + 3) = data
    /\ f[Len(data) + 4] + 256 * f[Len(data) + 5] = stm32_uart_crc16(data)
    /\ f[Len(data) + 6] = STM32_PACKET_END_MARKER

\* the application's send handed a frame to the transport in this step
SyncHandsOver ==
    /\ pc[APP] = "sy_write" /\ pc'[APP] = "returned"
    /\ sendStatus'[APP] = UART_DRV_OK
    /\ started' # started
AsyncHandsOver ==
    /\ pc[APP] = "as_start" /\ pc'[APP] = "returned"
    /\ sendStatus'[APP] = UART_DRV_OK
    /\ started' # started

SendErrors(oversize) ==
    /\ (pc[APP] = "idle" /\ pc'[APP] # "idle") =>
          IF ~Initialized
          THEN /\ pc'[APP] = "returned"
               /\ sendStatus'[APP] = UART_DRV_ERR_NOT_INITIALIZED
               /\ UNCHANGED <<txVars, hwVars>>
          ELSE IF Len(scen.payload) > STM32_UART_MAX_PACKET_SIZE - PACKET_OVERHEAD
          THEN /\ pc'[APP] = "returned"
               /\ sendStatus'[APP] = oversize
               /\ UNCHANGED <<txVars, hwVars>>
          ELSE pc'[APP] \in {"sy_mutex", "as_mutex"}
    /\ (pc[APP] \in {"sy_mutex", "as_mutex"} /\ pc'[APP] # pc[APP]) =>
          IF tx_mutex # NULL
          THEN /\ pc'[APP] = "returned"
               /\ sendStatus'[APP] = UART_DRV_ERR_TIMEOUT
               /\ UNCHANGED <<txVars, hwVars>>
          ELSE tx_mutex' = APP /\ pc'[APP] # "returned"
    /\ (pc[APP] = "as_sem" /\ pc'[APP] # pc[APP]) =>
          IF tx_complete_sem = 0
          THEN /\ pc'[APP] = "returned"
               /\ sendStatus'[APP] = UART_DRV_ERR_TIMEOUT
               /\ tx_mutex' = NULL
               /\ UNCHANGED hwVars
          ELSE pc'[APP] = "as_build"
    /\ (pc[APP] \in {"sy_write", "as_start"} /\ pc'[APP] # pc[APP]) =>
          /\ pc'[APP] = "returned"
          /\ tx_mutex' = NULL
          /\ sendStatus'[APP] \in {UART_DRV_OK, UART_DRV_ERR_TX_FAILED}
          /\ hwBusy => sendStatus'[APP] = UART_DRV_ERR_TX_FAILED
          /\ sendStatus'[APP] = UART_DRV_ERR_TX_FAILED => UNCHANGED hwVars

\* C20 as stated: NotInitialized when the codec is not initialized,
\* InvalidParameter when the payload exceeds the maximum size, Timeout when the
\* lock or the wait for the prior transmission is not obtained, TransmitFailed
\* on a write failure; in the first two cases the lock is not taken and
\* nothing is written.
C20_Original == [][SendErrors(UART_DRV_ERR_INVALID_PARAM)]_vars

\* C20, amended: as stated, except that a payload beyond the maximum size
\* fails with PacketTooLarge.
C20_SendErrors == [][SendErrors(UART_DRV_ERR_PACKET_TOO_LARGE)]_vars

\* reached: a send of 507 bytes returned PacketTooLarge with the lock free and
\* nothing built or written
C20_Witness ==
    /\ Initialized
    /\ Len(scen.payload) = STM32_UART_MAX_PACKET_SIZE - PACKET_OVERHEAD + 1
    /\ pc[APP] = "returned"
    /\ sendStatus[APP] = UART_DRV_ERR_PACKET_TOO_LARGE
    /\ ~streaming_active
    /\ tx_mutex = NULL /\ tx_buffer = <<>> /\ wire = <<>> /\ started = <<>>

\* ------------------------------------------------------------------------
\* Properties of the dispatcher: failures and the single handlers
\* ------------------------------------------------------------------------
PacketStatus(d) == d[4]

\* os_task_create failed in this step: start_stream returns an error to
\* handle_cmd_start_measurement, which hands its response to the codec
SpawnFails == pc[RX] = "start_create" /\ pc'[RX] = "as_mutex"

\* the dispatcher sends one packet and returns to the receive loop
SendsOnce ==
    /\ Responding =>
          \/ Responding' /\ sendData'[RX] = sendData[RX]
          \/ pc'[RX] = "returned"
    /\ pc[RX] = "returned" => pc'[RX] \in {"returned", "idle"}

\* the receive task carries a response of status RESP_ERROR to the codec
AnswersError == Responding /\ PacketStatus(sendData[RX]) = RESP_ERROR

\* C21: if spawning the stream task fails, protocol_handler_start_stream
\* reports failure, the session is Idle afterwards (not streaming, no task
\* handle held) and the StartMeasurement command is answered with exactly one
\* Response of status RESP_ERROR.
C21_SpawnFailure ==
    [][/\ SpawnFails =>
             /\ sendData'[RX] = <<PACKET_TYPE_RESP, CMD_START_MEASUREMENT,
                                  PacketSeq(CausingPacket), RESP_ERROR, 0, 0>>
             /\ ~streaming_active' /\ stream_task_handle' = NULL
       /\ AnswersError =>
             /\ ~streaming_active /\ stream_task_handle = NULL
             /\ ~streaming_active' /\ stream_task_handle' = NULL
             /\ \A k \in StreamIds : taskState'[k] # "alive"
             /\ SendsOnce]_vars

\* reached: a Start command sent into a running session stopped that session,
\* the spawn failed, and the error response is on its way
C21_Witness ==
    /\ scen.pre = StartFrame /\ TestFrameDone
    /\ PacketCmdId(scen.payload) = CMD_START_MEASUREMENT
    /\ AnswersError
    /\ pc[RX] = "as_start"
    /\ ~streaming_active /\ stream_task_handle = NULL

\* protocol_handler_stop_stream is entered with no session active
StopOnIdle == pc[RX] = "stop_check" /\ ~streaming_active /\ pc'[RX] # pc[RX]

\* protocol_handler_stop_stream returns to its caller in this step
StopReturns ==
    /\ pc[RX] \in {"stop_check", "stop_delete"}
    /\ pc'[RX] \notin {"stop_check", "stop_wait", "stop_delete"}

\* C22: protocol_handler_stop_stream called with no session active returns
\* success at once, without sleeping and without changing any state; every
\* stop returns with no session active, so a second stop is that case and
\* leaves the state of the first.
C22_IdempotentStop ==
    [][/\ StopOnIdle =>
             /\ StopReturns
             /\ UNCHANGED <<protoVars, txVars, hwVars, monVars, obsVars, taskState, fault>>
             /\ rxCmd.id = CMD_STOP_MEASUREMENT =>
                   sendData'[RX] = ResponsePacket(CMD_STOP_MEASUREMENT, rxCmd.seq, RESP_OK)
       /\ StopReturns => ~streaming_active']_vars

\* reached: the last of the commands was a Stop that found no session, no
\* task was ever created, and its RESP_OK is handed to the codec
C22_Witness ==
    /\ cmdsLeft = 0
    /\ rxCmd.id = CMD_STOP_MEASUREMENT
    /\ pc[RX] = "as_mutex"
    /\ PacketStatus(sendData[RX]) = RESP_OK
    /\ ~streaming_active /\ ~stream_stop_requested /\ stream_task_handle = NULL
    /\ \A k \in StreamIds : taskState[k] = "none"


\* ------------------------------------------------------------------------
\* C23: in every interleaving of the temperature event callback and the
\* streaming loop, whenever the loop saw the validity flag set, the
\* temperature it then read is one delivered by a sensor-ok update, never the
\* initial unwritten value
\* ------------------------------------------------------------------------
SampleBuilt(k) == taskState[k] = "alive" /\ pc[k] \in AsyncSendPcs \cup {"sleep"}

AssemblyState == <<rx_state, rx_index, rx_expected_length, rx_crc>>
ReceiveTaskStep == taskVars' = taskVars

C24_SingleWriter == [][AssemblyState' # AssemblyState => ReceiveTaskStep]_vars

\* ------------------------------------------------------------------------
\* C25: stm32_uart_wait_tx_complete, called while an asynchronous
\* transmission is in progress, returns UART_DRV_OK only after that
\* transmission completed (a TX_DONE event was delivered since the call),
\* and it leaves the completion semaphore as it found it
\* ------------------------------------------------------------------------
WaitReturns(status) ==
    pc[APP] = "wt_sem" /\ pc'[APP] = "returned" /\ sendStatus'[APP] = status

C25_WaitForCompletion ==
    [][/\ WaitReturns(UART_DRV_OK) => tx_done_seen
       /\ pc[APP] = "wt_sem" /\ pc'[APP] # "wt_sem" => tx_complete_sem' = tx_complete_sem]_vars

\* the frame under test is a StartMeasurement with fewer than 5 payload bytes
\* or a SetRtc with fewer than 4
ShortParamStream ==
    /\ scen.kind = "command"
    /\ \/ /\ PacketCmdId(scen.payload) = CMD_START_MEASUREMENT
          /\ PacketLength(scen.payload) < 5
       \/ /\ PacketCmdId(scen.payload) = CMD_SET_RTC
          /\ PacketLength(scen.payload) < 4

\* the streaming session: its flags, sensor, interval, task handle and task
SessionState ==
    <<streaming_active, stream_sensor, stream_interval_ms, stream_task_handle,
      stream_stop_requested, taskState>>

\* C26: a StartMeasurement command with fewer than 5 payload bytes, or a SetRtc
\* command with fewer than 4, is answered with exactly one Response of status
\* RESP_INVALID_PARAM and leaves the streaming session as it was: a running
\* stream keeps running with its sensor and interval, an idle session stays idle.
C26_ShortParameters ==
    [][ShortParamStream =>
          /\ CompletesTestFrame =>
                /\ pc'[RX] = "as_mutex"
                /\ sendData'[RX] = <<PACKET_TYPE_RESP, PacketCmdId(scen.payload),
                                     PacketSeq(scen.payload), RESP_INVALID_PARAM, 0, 0>>
          /\ AtMostOneResponse
          /\ (CompletesTestFrame \/ TestFrameDone) => SessionState' = SessionState]_vars

\* reached: a Start command of 4 payload bytes arrived in a running session,
\* its refusal was handed to the codec, and the session streams as before
C26_Witness ==
    /\ ShortParamStream /\ scen.pre = StartFrame /\ TestFrameDone
    /\ PacketCmdId(scen.payload) = CMD_START_MEASUREMENT
    /\ PacketLength(scen.payload) = 4
    /\ pc[RX] = "returned" /\ sendStatus[RX] = UART_DRV_OK
    /\ streaming_active /\ stream_sensor = SENSOR_TEMPERATURE /\ stream_interval_ms = 100
    /\ \E k \in StreamIds : taskState[k] = "alive" /\ stream_task_handle = k

\* the status and the state of the sample store the claim gives for a command
AnswerOf(cmd_id) ==
    CASE cmd_id = CMD_STOP_MEASUREMENT -> RESP_OK
      [] cmd_id = CMD_GET_BUFFER_DATA -> RESP_NO_DATA
      [] cmd_id = CMD_CLEAR_BUFFER -> RESP_OK
      [] OTHER -> PacketStatus(sendData[RX])

\* the response to the command under test is on its way to the codec
Answered ==
    /\ TestFrameDone /\ Responding
    /\ sendData[RX] = <<PACKET_TYPE_RESP, PacketCmdId(scen.payload), PacketSeq(scen.payload),
                        AnswerOf(PacketCmdId(scen.payload)), 0, 0>>
    /\ PacketCmdId(scen.payload) = CMD_CLEAR_BUFFER =>
          sample_count = 0 /\ measurement_status = MEASUREMENT_IDLE

SimpleCommandStream ==
    /\ scen.kind = "command"
    /\ PacketCmdId(scen.payload) \in {CMD_STOP_MEASUREMENT, CMD_GET_BUFFER_DATA, CMD_CLEAR_BUFFER}

RtcCommanded(p) == p[1] + 256 * p[2] + 65536 * p[3] + 16777216 * p[4]

\* the frame under test is a SetRtc with at least 4 payload bytes
SetRtcStream ==
    /\ scen.kind = "command"
    /\ PacketCmdId(scen.payload) = CMD_SET_RTC
    /\ PacketLength(scen.payload) >= 4

\* C28: a SetRtc command with at least 4 payload bytes sets the device time
\* source to the commanded unix time before RESP_OK is sent: once the
\* response is handed over the time source reads the commanded value.
C28_RtcSet ==
    (SetRtcStream /\ TestFrameDone /\ Responding /\ PacketStatus(sendData[RX]) = RESP_OK)
        => rtc_seconds = RtcCommanded(PacketPayload(scen.payload))

\* ------------------------------------------------------------------------
\* C29: when the transport, the transmit mutex, the completion semaphore or
\* the receive task cannot be created, protocol_handler_init returns an error
\* and leaves the codec and the dispatcher uninitialized; while the
\* dispatcher is uninitialized every send_response, send_notification and
\* start_stream returns PROTO_HANDLER_ERR_NOT_INIT, hands nothing to the
\* transmitter and starts no session, and nothing was ever transmitted.
\* ------------------------------------------------------------------------
InitCallFails ==
    /\ pc[APP] = "idle" /\ appLeft' = appLeft - 1
    /\ apiCall'.op = "init" /\ apiCall'.failure \in InitFailures

UninitializedCall ==
    /\ ~proto_initialized
    /\ \/ pc[APP] = "idle" /\ appLeft' = appLeft - 1
          /\ apiCall'.op \in {"response", "notification"}
       \/ pc[APP] = "start_check" /\ pc'[APP] # "start_check"

NothingTransmitted ==
    /\ wire = <<>> /\ started = <<>> /\ ~hwBusy
    /\ tx_buffer = <<>> /\ ~tx_in_progress /\ tx_mutex = NULL
    /\ \A t \in Tasks : sendData[t] = <<>>
    /\ ~streaming_active /\ stream_task_handle = NULL
    /\ \A k \in StreamIds : taskState[k] = "none"

C29_FailedInit ==
    [][ /\ InitCallFails =>
             /\ apiStatus' = PROTO_HANDLER_ERR_NOT_INIT
             /\ ~uart_initialized' /\ ~proto_initialized'
        /\ UninitializedCall =>
             /\ apiStatus' = PROTO_HANDLER_ERR_NOT_INIT
             /\ pc'[APP] \in {"idle", "returned"}
             /\ UNCHANGED <<txVars, hwVars, protoVars, sendData, taskState>>
        /\ ~proto_initialized' => ~uart_initialized' /\ NothingTransmitted' ]_vars

\* the receive task could not be created (the semaphore was already given),
\* and a later start_stream returned not-initialized
C29_Witness ==
    /\ ~proto_initialized /\ ~uart_initialized
    /\ tx_complete_sem = SemInitialCount
    /\ apiCall.op = "start" /\ pc[APP] = "returned"
    /\ apiStatus = PROTO_HANDLER_ERR_NOT_INIT
    /\ NothingTransmitted

\* ------------------------------------------------------------------------
\* C30: when a pass of the streaming loop finds its reading invalid (the
\* temperature flag clear, or the instantaneous current read failing), it
\* still hands over a notification, whose sample value is 0, and the session
\* goes on: the session stays active, no stop is requested and the task
\* stays alive
\* ------------------------------------------------------------------------
SampleValueOf(data) ==
    LET n == Len(data)
    IN  data[n - 3] + 256 * data[n - 2] + 65536 * data[n - 1] + 16777216 * data[n]

IsSampleNotification(data) ==
    /\ Len(data) = PROTOCOL_HEADER_SIZE + Len(SampleBytes(0, 0, 0))
    /\ data[1] = PACKET_TYPE_NOTIFY
    /\ data[2] = CMD_START_MEASUREMENT

PassFoundInvalid(k) ==
    /\ pc[k] = "sample" /\ pc'[k] # "sample"
    /\ ~flag_seen'[k]

C30_InvalidReadingStillNotified ==
    [][ \A k \in StreamIds :
          PassFoundInvalid(k) =>
             /\ pc'[k] = "as_mutex"
             /\ IsSampleNotification(sendData'[k])
             /\ SampleValueOf(sendData'[k]) = 0
             /\ seq_counter' = (seq_counter + 1) % 256
             /\ streaming_active' /\ ~stream_stop_requested'
             /\ taskState'[k] = "alive" ]_vars

\* a failed current read, its notification handed over with value 0, and
\* it is not the first notification of the session
C30_Witness ==
    \E k \in StreamIds :
        /\ stream_sensor = SENSOR_CURRENT
        /\ pc[k] = "as_mutex" /\ ~flag_seen[k] /\ value_read[k] # 0
        /\ IsSampleNotification(sendData[k]) /\ SampleValueOf(sendData[k]) = 0
        /\ seq_counter = 2
        /\ streaming_active /\ taskState[k] = "alive"

\* ------------------------------------------------------------------------
\* C31: in every state of the receive state machine, whatever bytes were
\* fed, rx_index <= rx_expected_length <= 506, the machine is in
\* RX_STATE_DATA only while rx_index < rx_expected_length, and every byte
\* stored lies inside the 512-byte accumulation buffer
\* ------------------------------------------------------------------------
C31_IndexWithinLength ==
    /\ rx_index <= rx_expected_length
    /\ rx_expected_length <= STM32_UART_MAX_PACKET_SIZE - PACKET_OVERHEAD
    /\ rx_state = RX_STATE_DATA => rx_index < rx_expected_length
    /\ Len(rx_buffer) <= STM32_UART_MAX_PACKET_SIZE

\* the longest payload the length test admits is stored completely
C31_Witness ==
    /\ rx_state = RX_STATE_CRC_LOW
    /\ rx_expected_length = STM32_UART_MAX_PACKET_SIZE - PACKET_OVERHEAD
    /\ rx_index = rx_expected_length
    /\ Len(rx_buffer) = rx_index

\* ------------------------------------------------------------------------
\* C32: the byte consumed in RX_STATE_END produces exactly one event:
\* PACKET_RECEIVED with the accumulated payload when it is 0x55 and the CRC
\* recomputed over the payload equals the received CRC, CRC_ERROR when it is
\* 0x55 and the CRCs differ, RX_ERROR when it is not 0x55; in all three cases
\* the machine is Idle afterwards with index, expected length and CRC zero
\* ------------------------------------------------------------------------
\* a byte reaches the END arm of the switch: the staleness test at the head
\* of rx_process_byte did not reset the machine first
EndByteConsumed ==
    /\ rx_state = RX_STATE_END
    /\ rxPos' = rxPos + 1
    /\ stats'.timeout_errors = stats.timeout_errors

EndEventFor(byte, payload, received_crc) ==
    IF byte # STM32_PACKET_END_MARKER THEN Event(STM32_UART_EVENT_RX_ERROR, <<>>, 0)
    ELSE IF stm32_uart_crc16(payload) = received_crc
         THEN Event(STM32_UART_EVENT_PACKET_RECEIVED, payload, Len(payload))
         ELSE Event(STM32_UART_EVENT_CRC_ERROR, <<>>, 0)

C32_EndByteOutcome ==
    [][ EndByteConsumed =>
          /\ events' = Append(events, EndEventFor(scen.input[rxPos],
                                                  SubSeq(rx_buffer, 1, rx_index), rx_crc))
          /\ rx_state' = RX_STATE_IDLE
          /\ rx_index' = 0 /\ rx_expected_length' = 0 /\ rx_crc' = 0 ]_vars

\* a frame whose last byte is not the end marker was discarded
C32_Witness ==
    /\ events # <<>>
    /\ events[Len(events)].type = STM32_UART_EVENT_RX_ERROR
    /\ rxPos > 1 /\ scen.input[rxPos - 1] # STM32_PACKET_END_MARKER
    /\ rx_state = RX_STATE_IDLE
    /\ rx_index = 0 /\ rx_expected_length = 0 /\ rx_crc = 0

\* ------------------------------------------------------------------------
\* C33: from every state of the receive state machine, whatever bytes
\* follow, the machine is Idle again after at most 511 further bytes
\* (2 length + at most 506 data + 2 CRC + 1 end): the number of bytes that
\* can still be consumed outside Idle is bounded by 511 and every byte
\* consumed outside Idle lowers it, unless the byte resets the machine
\* ------------------------------------------------------------------------
\* the bytes the machine can at most consume before it is Idle
BytesToIdle ==
    CASE rx_state = RX_STATE_IDLE -> 0
      [] rx_state = RX_STATE_LENGTH_LOW ->
             2 + (STM32_UART_MAX_PACKET_SIZE - PACKET_OVERHEAD) + 3
      [] rx_state = RX_STATE_LENGTH_HIGH ->
             1 + (STM32_UART_MAX_PACKET_SIZE - PACKET_OVERHEAD) + 3
      [] rx_state = RX_STATE_DATA -> (rx_expected_length - rx_index) + 3
      [] rx_state = RX_STATE_CRC_LOW -> 3
      [] rx_state = RX_STATE_CRC_HIGH -> 2
      [] rx_state = RX_STATE_END -> 1

\* rx_reset_state ran in the step: after a timeout, an oversize length or
\* the end byte the machine was Idle, whatever the byte then started
ResetInStep ==
    \/ stats'.timeout_errors # stats.timeout_errors
    \/ stats'.framing_errors # stats.framing_errors
    \/ Len(events') # Len(events)

C33_BackToIdle ==
    [][ rxPos' = rxPos + 1 =>
          /\ BytesToIdle' <= STM32_UART_MAX_PACKET_SIZE - 1
          /\ (rx_state # RX_STATE_IDLE /\ ~ResetInStep) => BytesToIdle' < BytesToIdle ]_vars

\* the bound is attained: the 511 bytes after the start marker of a frame
\* around a 506-byte payload were all consumed outside Idle
C33_Witness ==
    /\ scen.kind = "roundtrip"
    /\ Len(scen.input) = STM32_UART_MAX_PACKET_SIZE
    /\ rxPos = Len(scen.input) + 1
    /\ ~lateSeen
    /\ rx_state = RX_STATE_IDLE
    /\ stats.packets_received = 1

\* ------------------------------------------------------------------------
\* C34: whenever stm32_uart_send_packet, stm32_uart_send_packet_async or
\* stm32_uart_send_raw has returned, with success, timeout or transmit
\* failure, the caller does not hold the transmit mutex: a task that exists
\* holds the mutex only between the take and the give inside the body of
\* one send call (the mutex has one owner at a time)
\* ------------------------------------------------------------------------
\* positions of a send between os_mutex_take and os_mutex_give
MutexHeldPcs == {"as_sem", "as_build", "as_start", "sy_write", "raw_write"}

\* the task was deleted by os_task_delete
Deleted(t) == t \in StreamIds /\ taskState[t] = "deleted"

C34_MutexInsideSend ==
    \A t \in Tasks : (tx_mutex = t /\ ~Deleted(t)) => pc[t] \in MutexHeldPcs

\* the raw send of the application failed on the mutex, which a stream
\* task holds inside its own send; the application holds nothing
C34_Witness ==
    /\ pc[APP] = "returned"
    /\ sendStatus[APP] = RAW_SEND_FAILED
    /\ tx_mutex \in StreamIds
    /\ pc[tx_mutex] \in MutexHeldPcs

\* ------------------------------------------------------------------------
\* C35: whenever no send call is executing, stm32_uart_tx_busy() (the
\* in-progress flag) is true exactly when a hardware asynchronous write has
\* been started and its completion callback has not yet run
\* ------------------------------------------------------------------------
\* bool stm32_uart_tx_busy(void) { return state.tx_in_progress; }
stm32_uart_tx_busy == tx_in_progress

\* no task is inside a send function
NoSendExecuting ==
    \A t \in Tasks : pc[t] \notin AsyncSendPcs \cup {"sy_mutex", "sy_write", "raw_mutex", "raw_write"}

C35_BusyMeansOutstanding == NoSendExecuting => (stm32_uart_tx_busy <=> hwBusy)

\* ------------------------------------------------------------------------
\* C36: the stream task of a session is deleted exactly once: stop_stream
\* never applies os_task_delete, through the stored handle, to a task that
\* already deleted itself
\* ------------------------------------------------------------------------
\* stop_stream executes os_task_delete(state.stream_task_handle) in this step
DeletesThroughHandle ==
    /\ stream_task_handle # NULL
    /\ \E t \in {RX, APP} :
          /\ pc[t] = "stop_delete"
          /\ pc'[t] # "stop_delete" \/ (fault' /\ ~fault)

C36_DeletedOnce ==
    [][DeletesThroughHandle => taskState[stream_task_handle] # "deleted"]_vars

\* ------------------------------------------------------------------------
\* C37: stm32_uart_send_packet and stm32_uart_send_raw never write to the
\* transport while an asynchronous transmission is still in progress: no
\* call of hal_uart_write is made between the start of a DMA transmission
\* and its completion callback
\* ------------------------------------------------------------------------
\* a task executes hal_uart_write in this step
BlockingWriteCalled ==
    \E t \in Tasks : pc[t] \in {"sy_write", "raw_write"} /\ pc'[t] # pc[t]

C37_NoWriteDuringAsync == [][BlockingWriteCalled => ~hwBusy]_vars

\* C38: once the event bus has processed the report of a failed sensor read,
\* and until it delivers the next successful read, the latest-reading cache of
\* the protocol handler is marked invalid (so the temperature notifications of
\* a running stream carry 0)
C38_FailedReadInvalidates == read_failed => ~temp_data_valid

\* the events of one type among those delivered to the callback
CountEvents(evs, type) == Cardinality({i \in 1..Len(evs) : evs[i].type = type})

\* C39 as stated: each of the four receive counters equals the number of
\* events of its kind delivered to the callback since the statistics were
\* cleared
C39_CountersEqualEvents ==
    /\ stats.packets_received = CountEvents(events, STM32_UART_EVENT_PACKET_RECEIVED)
    /\ stats.crc_errors = CountEvents(events, STM32_UART_EVENT_CRC_ERROR)
    /\ stats.timeout_errors = CountEvents(events, STM32_UART_EVENT_TIMEOUT)
    /\ stats.framing_errors = CountEvents(events, STM32_UART_EVENT_RX_ERROR)

\* the byte consumed is the LENGTH_HIGH byte of a length above the maximum
\* payload, and no timeout reset the machine before it
OversizeDiscard ==
    /\ rx_state = RX_STATE_LENGTH_HIGH
    /\ rxPos' = rxPos + 1
    /\ stats'.timeout_errors = stats.timeout_errors
    /\ LengthTooLarge(BitOr(rx_expected_length, U16(scen.input[rxPos] * 256)))

NewEvents(type) == CountEvents(events', type) - CountEvents(events, type)

\* C39, amended: the counters and the events start at zero, and every byte
\* consumed adds to packets_received, crc_errors and timeout_errors exactly the
\* events of their kind it delivers, and to framing_errors the RX_ERROR events
\* it delivers plus one for an oversize length, which is counted but delivers
\* no event; a byte changes at most one of the frame counters
C39_CountersAndEvents ==
    /\ (rxPos = 1 => stats = ZeroStats /\ events = <<>>)
    /\ [][rxPos' = rxPos + 1 =>
            /\ stats'.packets_received - stats.packets_received =
                  NewEvents(STM32_UART_EVENT_PACKET_RECEIVED)
            /\ stats'.crc_errors - stats.crc_errors = NewEvents(STM32_UART_EVENT_CRC_ERROR)
            /\ stats'.timeout_errors - stats.timeout_errors =
                  NewEvents(STM32_UART_EVENT_TIMEOUT)
            /\ stats'.framing_errors - stats.framing_errors =
                  NewEvents(STM32_UART_EVENT_RX_ERROR) + (IF OversizeDiscard THEN 1 ELSE 0)
            /\ (stats'.packets_received - stats.packets_received)
                  + (stats'.crc_errors - stats.crc_errors)
                  + (stats'.framing_errors - stats.framing_errors) <= 1
            /\ Len(events') - Len(events) =
                  NewEvents(STM32_UART_EVENT_PACKET_RECEIVED)
                  + NewEvents(STM32_UART_EVENT_CRC_ERROR)
                  + NewEvents(STM32_UART_EVENT_TIMEOUT)
                  + NewEvents(STM32_UART_EVENT_RX_ERROR)
       ]_vars

\* an oversize length was discarded and counted with no event delivered, and a
\* later frame with a wrong end marker was counted and reported
C39_Witness ==
    /\ stats.framing_errors = 2
    /\ CountEvents(events, STM32_UART_EVENT_RX_ERROR) = 1

\* C40: while the codec is not initialized, that is before the first init and
\* after every init that failed, nothing stm32_uart_init acquires is
\* allocated or registered
C40_FailedInitReleasesAll == ~uart_initialized => allocated = {}

====
